---- MODULE Spec2Model ----
(***************************************************************************)
(* A model of the enen demo: the puzzle/trial state machines of            *)
(* include/puzzles.hpp (LearningValidator, GauntletState, SequencePuzzle), *)
(* the rolling trial history, and the three programs that drive them: the  *)
(* auto-run recorder, the Game class and the interactive key loop.         *)
(*                                                                         *)
(* The learning networks are external: every decision of a network is a    *)
(* nondeterministic input of the step that asks for it.                    *)
(***************************************************************************)
EXTENDS Integers, Sequences, FiniteSets, TLC

VARIABLES
    runner,           \* which program runs: "unit", "autorun", "game", "interactive"
    pc,               \* position of that program
    current_puzzle,   \* PuzzleType, 0..4
    puzzle_complete,  \* DemoState/GameState::puzzle_complete; autorun: local `complete`
    demo_complete,    \* DemoState/GameState::demo_complete
    showIntro,        \* main.cpp main(): local showIntro
    showPuzzleIntro,  \* main.cpp main(): local showPuzzleIntro
    validator,        \* LearningValidator
    gauntlet,         \* GauntletState
    seq_puzzle,       \* SequencePuzzle::state
    history,          \* History / TrialHistory entries_
    loop_i,           \* Game::runPuzzleToCompletion: i
    maxTrials,        \* Game::runPuzzleToCompletion: maxTrials
    demo_p,           \* Game::runFullDemo: p (-1 outside runFullDemo)
    last_trials,      \* the value runPuzzleToCompletion returned in the last step
                      \* (0: it did not return in that step)
    demo_ret,         \* observer: the value runFullDemo returned in the last step
                      \* ("none": it did not return in that step)
    vlog,             \* observer: outcomes recorded into validator since its reset
    recorded,         \* observer: outcomes recorded into gauntlet since its reset
    presses,          \* observer: buttons pressed on seq_puzzle since its reset
    call,             \* observer: the operation of the last step: its input, its
                      \* result, what it trained the network on, its pressButton call
    buffer,           \* TextBuffer::buffer_ (<<>>: not yet cleared, cells indeterminate)
    writer,           \* FrameWriter: time_ (milliseconds), firstFrame_
    added,            \* observer: entries added to history since its clear (unit harness)
    stream,           \* observer: the records the FrameWriter printed, in order
    frame,            \* observer: what the last step's output call built and printed
    draw,             \* observer: the last TextBuffer call and its arguments
    rng,              \* the RNG instances constructed (unit harness): RNG::state of each
    rolled,           \* observer: the values next() returned, per RNG instance
    generated,        \* observer: the trial the last step's generate call returned
                      \* (NoTrial: the step made no generate call)
    fresh             \* observer: no trial step has run since the current puzzle
                      \* run started (program start, next puzzle, restart)

vars == <<runner, pc, current_puzzle, puzzle_complete, demo_complete,
          showIntro, showPuzzleIntro, validator, gauntlet, seq_puzzle, history,
          loop_i, maxTrials, demo_p, last_trials, demo_ret, vlog, recorded,
          presses, call,
          buffer, writer, added, stream, frame, draw, rng, rolled, generated,
          fresh>>

\* The program variables no operation of the unit harnesses touches.
progVars == <<pc, current_puzzle, puzzle_complete, demo_complete,
              showIntro, showPuzzleIntro, loop_i, maxTrials, demo_p,
              last_trials, demo_ret, fresh>>

validatorVars == <<validator, vlog>>
gauntletVars == <<gauntlet, recorded>>
seqVars == <<seq_puzzle, presses>>

\* The random source with the trials generated from it, and the frame
\* output objects.  The models of the three programs leave them out, but
\* for `generated`: a program's trial is reduced to its ground truth and
\* the mode it was generated in, and what a program draws and prints is not
\* part of its steps here.
genVars == <<rng, rolled, generated>>

\* What no step of the three programs touches.
ioRest == <<buffer, writer, added, stream, frame, draw, rng, rolled>>

ioVars == <<buffer, writer, added, stream, frame, draw, genVars>>

----------------------------------------------------------------------------
(* Bounds of the model. *)

\* Outcomes recorded into one validator before the model stops recording.
MaxTrials == 6

\* Outcomes recorded into one gauntlet by the unit harness.
MaxGauntlet == 32

\* Buttons pressed on one SequencePuzzle by the unit harness between resets.
MaxPresses == 6

\* Entries added to one history by the unit harness between clears.
MaxAdds == 6

\* Drawing calls (putString, putChar, drawHLine) made by the unit harness.
MaxDraws == 2

\* Records printed by one FrameWriter in the unit harness.
MaxFrames == 3

\* Calls of next() on one RNG instance in the unit harness.
MaxCalls == 4

\* Iterations of a generator's re-roll loop followed in one generate call.
MaxRerolls == 6

\* Trials generated from one RNG in the unit harness.
MaxGenerated == 3

\* The two caps a caller passes to Game::runPuzzleToCompletion and
\* Game::runFullDemo: one too small for any puzzle to complete, one that
\* lets the gauntlet's 30 trials complete.
SmallCap == 3
LargeCap == 30

----------------------------------------------------------------------------
(* Program constants. *)

NUM_PUZZLES == 5
WARMUP_TRIALS == 10
SCORED_TRIALS == 20
MAX_ENTRIES == 4
WIDTH == 80
HEIGHT == 24

\* namespace timing (history.hpp), in milliseconds.
INTRO_1 == 6000
INTRO_2 == 6000
PUZZLE_INTRO == 5000
FIRST_TRIAL == 3000
TRIAL_CORRECT == 1500
TRIAL_WRONG == 2000
COMPLETION == 4000
VICTORY == 8000
SEQUENCE_STEP == 800
MIN_TRIALS == 5

GENERALIZATION == 0
FEATURE_SELECTION == 1
XOR_CONTEXT == 2
SEQUENCE == 3
COMPOSITION == 4

Max(a, b) == IF a >= b THEN a ELSE b

----------------------------------------------------------------------------
(* LearningValidator *)

requiredSuccesses == 4

LearningValidator_new == [failures |-> 0, successes |-> 0, total_trials |-> 0]

LearningValidator_recordOutcome_keepStreak(v, success) ==
    IF success
    THEN [v EXCEPT !.total_trials = @ + 1, !.successes = @ + 1]
    ELSE [v EXCEPT !.total_trials = @ + 1, !.failures = @ + 1]

LearningValidator_recordOutcome(v, success) ==
    IF success
    THEN [v EXCEPT !.total_trials = @ + 1, !.successes = @ + 1]
    ELSE [v EXCEPT !.total_trials = @ + 1, !.failures = @ + 1, !.successes = 0]

\* A completion test that asks for five successes in a row.
hasLearned_fiveInARow(v) ==
    v.total_trials >= MIN_TRIALS /\ v.successes >= requiredSuccesses + 1

hasLearned_noMinimum(v) == v.successes >= requiredSuccesses

hasLearned(v) == v.total_trials >= MIN_TRIALS /\ v.successes >= requiredSuccesses

LearningValidator_reset(v) == LearningValidator_new

isFirstTrial_never(v) == FALSE

isFirstTrial(v) == v.total_trials = 0

----------------------------------------------------------------------------
(* GauntletState *)

GauntletState_new == [warmup_completed |-> 0, scored_completed |-> 0, correct |-> 0]

inWarmup(g) == g.warmup_completed < WARMUP_TRIALS

GauntletState_recordOutcome_scoreWarmup(g, success) ==
    IF inWarmup(g)
    THEN [g EXCEPT !.warmup_completed = @ + 1,
                   !.correct = IF success THEN @ + 1 ELSE @]
    ELSE [g EXCEPT !.scored_completed = @ + 1,
                   !.correct = IF success THEN @ + 1 ELSE @]

GauntletState_recordOutcome(g, success) ==
    IF inWarmup(g)
    THEN [g EXCEPT !.warmup_completed = @ + 1]
    ELSE [g EXCEPT !.scored_completed = @ + 1,
                   !.correct = IF success THEN @ + 1 ELSE @]

isComplete_onePast(g) == g.scored_completed > SCORED_TRIALS

isComplete(g) == g.scored_completed >= SCORED_TRIALS

scorePercent_divideFirst(g) ==
    IF g.scored_completed = 0 THEN 0
    ELSE (g.correct \div g.scored_completed) * 100

\* int division of non-negative ints: C++ truncation and \div agree.
scorePercent(g) ==
    IF g.scored_completed = 0 THEN 0
    ELSE (g.correct * 100) \div g.scored_completed

currentTrials(g) == g.warmup_completed + g.scored_completed

GauntletState_reset(g) == GauntletState_new

----------------------------------------------------------------------------
(* SequencePuzzle *)

SequenceStates == {"START", "PRESSED_A", "SUCCESS", "FAIL"}

\* chooseAction returns 0 (A) or 1 (B).
Buttons == {0, 1}

pressButton_stayOnRepeat(state, button) ==
    CASE state = "START" ->
            IF button = 0 THEN [state |-> "PRESSED_A", ret |-> TRUE]
                          ELSE [state |-> "FAIL", ret |-> FALSE]
      [] state = "PRESSED_A" ->
            IF button = 1 THEN [state |-> "SUCCESS", ret |-> TRUE]
                          ELSE [state |-> "PRESSED_A", ret |-> TRUE]
      [] OTHER -> [state |-> state, ret |-> FALSE]

pressButton(state, button) ==
    CASE state = "START" ->
            IF button = 0 THEN [state |-> "PRESSED_A", ret |-> TRUE]
                          ELSE [state |-> "FAIL", ret |-> FALSE]
      [] state = "PRESSED_A" ->
            IF button = 1 THEN [state |-> "SUCCESS", ret |-> TRUE]
                          ELSE [state |-> "FAIL", ret |-> FALSE]
      [] OTHER -> [state |-> state, ret |-> FALSE]

isSuccess(state) == state = "SUCCESS"

isFail_inProgress(state) == state \in {"FAIL", "PRESSED_A"}

isFail(state) == state = "FAIL"

inProgress(state) == state = "PRESSED_A"

SequencePuzzle_reset_forgotten(state) == state

SequencePuzzle_reset(state) == "START"

lastActionInput_alwaysZero(state) == 0

lastActionInput(state) ==
    CASE state = "PRESSED_A" -> 64
      [] state = "START" -> 0
      [] OTHER -> 0

----------------------------------------------------------------------------
(* History / TrialHistory *)

RECURSIVE evict(_)
evict(entries) ==
    IF Len(entries) > MAX_ENTRIES THEN evict(Tail(entries)) ELSE entries

History_clear_forgotten(entries) == entries

History_add_dropNewest(entries, trialNum, correct, summary) ==
    IF Len(entries) >= MAX_ENTRIES THEN entries
    ELSE Append(entries, [trialNum |-> trialNum, correct |-> correct,
                          summary |-> summary])

History_add(entries, trialNum, correct, summary) ==
    evict(Append(entries, [trialNum |-> trialNum, correct |-> correct,
                           summary |-> summary]))

History_clear(entries) == <<>>

----------------------------------------------------------------------------
(* Observers *)

NoPress == [from |-> "none", button |-> -1, to |-> "none", ret |-> FALSE]

\* What a step trained the network on: the previous-action input, the action
\* and the target.
\* The evaluation of a decision that the network has been trained on
\* beforehand: it is compared with the answer it has just learned.
honestEvaluation_afterLearning(chose, truth) == truth = truth

\* bool correct = (choseA == trial.correctIsA): the decision the network
\* returned, read before learn() is called, against the ground truth.
honestEvaluation(chose, truth) == chose = truth

Train(last, action, target) == [last |-> last, action |-> action, target |-> target]

NoTrain == [last |-> -1, action |-> -1, target |-> FALSE]

NoCall == [op |-> "none", arg |-> 0, chose |-> FALSE,
           key |-> "", ret |-> FALSE,
           train |-> NoTrain,
           press |-> NoPress]

\* Length of the run of successes at the end of a log of outcomes.
RECURSIVE Streak(_)
Streak(log) ==
    IF log = <<>> \/ ~log[Len(log)] THEN 0
    ELSE 1 + Streak(SubSeq(log, 1, Len(log) - 1))

----------------------------------------------------------------------------
(* FrameWriter (frame.hpp).  time_ is a double holding seconds; every pause *)
(* of the program is a whole number of milliseconds and the clock is       *)
(* printed with three decimals, so the model counts milliseconds.          *)

FrameWriter_new == [time_ |-> 0, firstFrame_ |-> TRUE]

\* No output call in the step.
NoFrame == [op |-> "none", content |-> <<>>, escaped |-> <<>>, time |-> -1,
            pause |-> -1,
            timing |-> [isComplete |-> FALSE, isFirstTrial |-> FALSE,
                        isCorrect |-> FALSE]]

----------------------------------------------------------------------------
(* TextBuffer (frame.hpp).  A character is its byte value.  buffer_ is an  *)
(* array of HEIGHT rows of WIDTH + 1 chars: row y is buffer[y + 1], column *)
(* x of it is buffer[y + 1][x + 1], and the last cell holds the string     *)
(* terminator that clear() writes.                                         *)

SPACE_CHAR == 32
NUL == 0

TextBuffer_clear(b) ==
    [y \in 1..HEIGHT |->
        [c \in 1..(WIDTH + 1) |-> IF c <= WIDTH THEN SPACE_CHAR ELSE NUL]]

RECURSIVE putStringLoop_pastWidth(_, _, _, _)
putStringLoop_pastWidth(row, x, str, i) ==
    IF i < Len(str) /\ x + i <= WIDTH
    THEN putStringLoop_pastWidth(
             IF x + i >= 0 THEN [row EXCEPT ![x + i + 1] = str[i + 1]] ELSE row,
             x, str, i + 1)
    ELSE row

\* putString's loop: for (i = 0; i < len && x + i < WIDTH; i++)
RECURSIVE putStringLoop(_, _, _, _)
putStringLoop(row, x, str, i) ==
    IF i < Len(str) /\ x + i < WIDTH
    THEN putStringLoop(
             IF x + i >= 0 THEN [row EXCEPT ![x + i + 1] = str[i + 1]] ELSE row,
             x, str, i + 1)
    ELSE row

TextBuffer_putString(b, x, y, str) ==
    IF y < 0 \/ y >= HEIGHT THEN b
    ELSE [b EXCEPT ![y + 1] = putStringLoop(@, x, str, 0)]

TextBuffer_putChar(b, x, y, c) ==
    IF x >= 0 /\ x < WIDTH /\ y >= 0 /\ y < HEIGHT
    THEN [b EXCEPT ![y + 1][x + 1] = c]
    ELSE b

drawHLineLoop_pastWidth(x, length) == {i \in 0..(length - 1) : x + i <= WIDTH}

\* drawHLine's loop, for (i = 0; i < length && x + i < WIDTH; i++): the
\* values of i for which the body runs.  The loop condition, once false,
\* stays false for every larger i, so the body runs for exactly the i below
\* length that satisfy it.
drawHLineLoop(x, length) == {i \in 0..(length - 1) : x + i < WIDTH}

\* The iterations write independent cells of row y: column col is written
\* when the body runs for i = col - x and its guard holds.
TextBuffer_drawHLine(b, x, y, length, c) ==
    IF y >= 0 /\ y < HEIGHT
    THEN [b EXCEPT ![y + 1] =
             [col \in 1..(WIDTH + 1) |->
                 IF (col - 1) - x \in drawHLineLoop(x, length) /\ col - 1 >= 0
                 THEN c ELSE @[col]]]
    ELSE b

\* line(y): the row as a C string, the chars before the first NUL (a row
\* without one would be read past its end: the whole array row stands for
\* that).
TextBuffer_line(b, y) ==
    IF y >= 0 /\ y < HEIGHT
    THEN LET row == b[y + 1]
             nuls == {i \in 1..Len(row) : row[i] = NUL}
         IN  IF nuls # {}
             THEN SubSeq(row, 1, (CHOOSE i \in nuls : \A j \in nuls : i <= j) - 1)
             ELSE row
    ELSE <<>>

\* No TextBuffer call in the step.
NoDraw == [n |-> 0, op |-> "none", x |-> 0, y |-> 0, str |-> <<>>,
           length |-> 0, c |-> NUL, puzzle |-> -1, complete |-> FALSE]

----------------------------------------------------------------------------
(* FrameWriter's methods (frame.hpp).  Strings are sequences of bytes.     *)

\* ansi::INIT = "\x1b[2J\x1b[H\x1b[22m\x1b[38;2;242;178;51m\x1b[48;2;12;12;10m"
INIT ==
    <<27, 91, 50, 74, 27, 91, 72, 27, 91, 50, 50, 109,
      27, 91, 51, 56, 59, 50, 59, 50, 52, 50, 59, 49, 55, 56, 59, 53, 49, 109,
      27, 91, 52, 56, 59, 50, 59, 49, 50, 59, 49, 50, 59, 49, 48, 109>>

\* ansi::CLEAR = "\x1b[2J\x1b[H"
CLEAR == <<27, 91, 50, 74, 27, 91, 72>>

\* The loop of buildFrameContent over the rows y..HEIGHT-1: line(y) and a
\* newline for each of them.
RECURSIVE appendLines(_, _)
appendLines(b, y) ==
    IF y < HEIGHT
    THEN TextBuffer_line(b, y) \o <<10>> \o appendLines(b, y + 1)
    ELSE <<>>

buildFrameContent_alwaysInit(w, b) ==
    [result |-> INIT \o appendLines(b, 0), writer |-> w]

\* buildFrameContent: the content, and the writer with its flag lowered.
buildFrameContent(w, b) ==
    [result |-> (IF w.firstFrame_ THEN INIT ELSE CLEAR) \o appendLines(b, 0),
     writer |-> [w EXCEPT !.firstFrame_ = FALSE]]

\* Lower-case hexadecimal digit, as printf's %x writes it.
HexDigit(n) == IF n < 10 THEN 48 + n ELSE 87 + n

\* The value of a char holding the given byte: bytes from 0x80 on are
\* negative where char is signed (implementation-defined).
charValue(byte, charSigned) ==
    IF charSigned /\ byte >= 128 THEN byte - 256 ELSE byte

escapeChar_bareNewline(byte, charSigned) ==
    IF byte = 10 THEN <<92, 110>>
    ELSE IF byte = 34 THEN <<92, 34>>
    ELSE IF byte = 92 THEN <<92, 92>>
    ELSE IF byte = 13 THEN <<>>
    ELSE IF byte = 9 THEN <<92, 116>>
    ELSE IF byte >= 32 /\ byte < 127 THEN <<byte>>
    ELSE IF byte < 32 THEN <<92, 117, 48, 48, HexDigit(byte \div 16), HexDigit(byte % 16)>>
    ELSE <<>>

escapeChar_keepCR(byte, charSigned) ==
    IF byte = 10 THEN <<92, 114, 92, 110>>
    ELSE IF byte = 34 THEN <<92, 34>>
    ELSE IF byte = 92 THEN <<92, 92>>
    ELSE IF byte = 13 THEN <<92, 114>>
    ELSE IF byte = 9 THEN <<92, 116>>
    ELSE IF byte >= 32 /\ byte < 127 THEN <<byte>>
    ELSE IF byte < 32 THEN <<92, 117, 48, 48, HexDigit(byte \div 16), HexDigit(byte % 16)>>
    ELSE <<>>

\* The body of escapeForJson's loop: what one char appends to `escaped`.
\* "\\u%04x" of the byte as unsigned char is \u00 and two hex digits.
escapeChar(byte, charSigned) ==
    LET c == charValue(byte, charSigned) IN
    CASE byte = 34 -> <<92, 34>>
      [] byte = 92 -> <<92, 92>>
      [] byte = 10 -> <<92, 114, 92, 110>>
      [] byte = 13 -> <<>>
      [] byte = 9  -> <<92, 116>>
      [] OTHER ->
           IF c >= 32 /\ c < 127 THEN <<byte>>
           ELSE IF c < 32
                THEN <<92, 117, 48, 48,
                       HexDigit(byte \div 16), HexDigit(byte % 16)>>
                ELSE <<>>

\* escapeForJson's loop over content[lo..hi], appending in order.  The
\* range is split in two halves: appending is associative, and a frame is
\* some two thousand chars long.
RECURSIVE escapeRange(_, _, _, _)
escapeRange(content, lo, hi, charSigned) ==
    IF lo > hi THEN <<>>
    ELSE IF lo = hi THEN escapeChar(content[lo], charSigned)
    ELSE LET mid == (lo + hi) \div 2 IN
         escapeRange(content, lo, mid, charSigned)
             \o escapeRange(content, mid + 1, hi, charSigned)

escapeForJson(content, charSigned) ==
    escapeRange(content, 1, Len(content), charSigned)

outputRawFrame_stampAfter(w, content, pauseAfter, charSigned) ==
    [record |-> [time |-> w.time_ + pauseAfter,
                 escaped |-> escapeForJson(content, charSigned)],
     writer |-> [w EXCEPT !.time_ = @ + pauseAfter]]

\* outputRawFrame: the record printed, and the writer with its clock advanced.
outputRawFrame(w, content, pauseAfter, charSigned) ==
    [record |-> [time |-> w.time_,
                 escaped |-> escapeForJson(content, charSigned)],
     writer |-> [w EXCEPT !.time_ = @ + pauseAfter]]

----------------------------------------------------------------------------
(* calculateTrialTiming (history.hpp): the pause after a trial frame.      *)

calculateTrialTiming_firstBeforeComplete(complete, firstTrial, correct) ==
    IF firstTrial THEN FIRST_TRIAL
    ELSE IF complete THEN COMPLETION
    ELSE IF correct THEN TRIAL_CORRECT ELSE TRIAL_WRONG

calculateTrialTiming(complete, firstTrial, correct) ==
    IF complete THEN COMPLETION
    ELSE IF firstTrial THEN FIRST_TRIAL
    ELSE IF correct THEN TRIAL_CORRECT ELSE TRIAL_WRONG

----------------------------------------------------------------------------
(* RNG (puzzles.hpp), xorshift32.  A uint32_t is the sequence of its 32    *)
(* bits, bit 0 first: a shift moves the bits and drops those that leave    *)
(* the word.                                                               *)

BITS == 32

\* The word of n, for n below 2^31: the bits from bit i - 1 on.
RECURSIVE WordFrom(_, _)
WordFrom(n, i) ==
    IF i > BITS THEN <<>> ELSE <<n % 2>> \o WordFrom(n \div 2, i + 1)

Word(n) == WordFrom(n, 1)

\* state << k
ShiftLeft(w, k) == SubSeq(Word(0), 1, k) \o SubSeq(w, 1, BITS - k)

\* state >> k
ShiftRight(w, k) == SubSeq(w, k + 1, BITS) \o SubSeq(Word(0), 1, k)

\* a ^ b, from bit i - 1 on.
RECURSIVE BitXorFrom(_, _, _)
BitXorFrom(a, b, i) ==
    IF i > BITS THEN <<>>
    ELSE <<(a[i] + b[i]) % 2>> \o BitXorFrom(a, b, i + 1)

BitXor(a, b) == BitXorFrom(a, b, 1)

\* w % m for a small m, from the top bit down.
RECURSIVE WordModFrom(_, _, _)
WordModFrom(w, m, i) ==
    IF i > BITS THEN 0 ELSE (w[i] + 2 * WordModFrom(w, m, i + 1)) % m

WordMod(w, m) == WordModFrom(w, m, 1)

\* RNG(seed)
RNG_new(seed) == seed

\* s ^= s << k
xorShiftLeft(s, k) == BitXor(s, ShiftLeft(s, k))

\* s ^= s >> k
xorShiftRight(s, k) == BitXor(s, ShiftRight(s, k))

RNG_next_plainLeft(state) ==
    xorShiftLeft(xorShiftLeft(xorShiftLeft(state, 13), 17), 5)

\* RNG::next: the new state, which is also the value returned.
RNG_next(state) ==
    xorShiftLeft(xorShiftRight(xorShiftLeft(state, 13), 17), 5)

\* The states of the RNG after each of n calls of next() made from `state`.
RECURSIVE DrawsFrom(_, _)
DrawsFrom(r, n) ==
    IF n = 0 THEN <<>> ELSE <<r>> \o DrawsFrom(RNG_next(r), n - 1)

Draws(state, n) == DrawsFrom(RNG_next(state), n)

\* No trial generated in the step.  A trial is kept with the fields of all
\* four trial structs, those of the other structs at 0 and FALSE.
NoTrial == [n |-> 0, kind |-> "none", adversarial |-> FALSE,
            sizeA |-> 0, sizeB |-> 0, colorA |-> 0, colorB |-> 0,
            shapeA |-> 0, shapeB |-> 0, lightOn |-> FALSE,
            choosingRight |-> FALSE, isSafe |-> FALSE, correctIsA |-> FALSE]

Abs(n) == IF n < 0 THEN -n ELSE n

\* What a generate call gives: the trial, the state it leaves in the RNG,
\* and whether it returned within MaxRerolls iterations of its loop.
Generated(t, state, returned) == [trial |-> t, rng |-> state, returned |-> returned]

\* The loop with a body that draws nothing: it ends only if it never starts.
rerollSizeB_noDraw(state, sizeA, sizeB, left) ==
    Generated(sizeB, state, Abs(sizeA - sizeB) >= 20)

rerollSizeB_gapTen(state, sizeA, sizeB, left) ==
    Generated(sizeB, state, Abs(sizeA - sizeB) >= 10)

\* while (std::abs(t.sizeA - t.sizeB) < 20) t.sizeB = 32 + rng.next() % 96;
\* `trial` of the result is the final sizeB.
RECURSIVE rerollSizeB(_, _, _, _)
rerollSizeB(state, sizeA, sizeB, left) ==
    IF Abs(sizeA - sizeB) < 20
    THEN IF left = 0 THEN Generated(sizeB, state, FALSE)
         ELSE rerollSizeB(RNG_next(state), sizeA,
                          32 + WordMod(RNG_next(state), 96), left - 1)
    ELSE Generated(sizeB, state, TRUE)

\* MushroomTrial::generateAdversarial
MushroomTrial_generateAdversarial(state) ==
    LET r == Draws(state, 4)
    IN  Generated([NoTrial EXCEPT !.kind = "mushroom", !.adversarial = TRUE,
                                  !.sizeA = 90 + WordMod(r[1], 38),
                                  !.sizeB = 32 + WordMod(r[2], 38),
                                  !.colorA = 10 + WordMod(r[3], 30),
                                  !.colorB = 90 + WordMod(r[4], 38),
                                  !.correctIsA = TRUE],
                  r[4], TRUE)

\* MushroomTrial::generate(rng, adversarial)
MushroomTrial_generateWith(state, adversarial) ==
    IF adversarial THEN MushroomTrial_generateAdversarial(state)
    ELSE LET r == Draws(state, 2)
             sizeA == 32 + WordMod(r[1], 96)
             loop == rerollSizeB(r[2], sizeA, 32 + WordMod(r[2], 96), MaxRerolls)
             c == Draws(loop.rng, 2)
         IN  Generated([NoTrial EXCEPT !.kind = "mushroom",
                                       !.sizeA = sizeA,
                                       !.sizeB = loop.trial,
                                       !.colorA = WordMod(c[1], 128),
                                       !.colorB = WordMod(c[2], 128),
                                       !.correctIsA = (sizeA > loop.trial)],
                       c[2], loop.returned)

\* ShapeTrial::rank
ShapeTrial_rank(color, shape) ==
    LET isCircle == shape > 64
        isBlue == color < 26
    IN  IF ~isCircle /\ isBlue THEN 2
        ELSE IF isCircle THEN 1
        ELSE 0

rerollShapeB_keepTie(state, rankA, colorB, shapeB, left) ==
    Generated([colorB |-> colorB, shapeB |-> shapeB], state, TRUE)

\* while (rankA == rankB) { colorB = ...; shapeB = ...; rankB = rank(...); }
\* `trial` of the result is the final colorB and shapeB.
RECURSIVE rerollShapeB(_, _, _, _, _)
rerollShapeB(state, rankA, colorB, shapeB, left) ==
    IF rankA = ShapeTrial_rank(colorB, shapeB)
    THEN IF left = 0
         THEN Generated([colorB |-> colorB, shapeB |-> shapeB], state, FALSE)
         ELSE LET r == Draws(state, 2)
              IN  rerollShapeB(r[2], rankA, WordMod(r[1], 128),
                               IF WordMod(r[2], 2) # 0 THEN 127 ELSE 0, left - 1)
    ELSE Generated([colorB |-> colorB, shapeB |-> shapeB], state, TRUE)

\* ShapeTrial::generateAdversarial
ShapeTrial_generateAdversarial(state) ==
    LET r == Draws(state, 2)
    IN  Generated([NoTrial EXCEPT !.kind = "shape", !.adversarial = TRUE,
                                  !.shapeA = 0,
                                  !.colorA = 5 + WordMod(r[1], 20),
                                  !.shapeB = 127,
                                  !.colorB = 80 + WordMod(r[2], 48),
                                  !.correctIsA = TRUE],
                  r[2], TRUE)

\* ShapeTrial::generate(rng, adversarial)
ShapeTrial_generateWith(state, adversarial) ==
    IF adversarial THEN ShapeTrial_generateAdversarial(state)
    ELSE LET r == Draws(state, 4)
             shapeA == IF WordMod(r[1], 2) # 0 THEN 127 ELSE 0
             shapeB == IF WordMod(r[2], 2) # 0 THEN 127 ELSE 0
             colorA == WordMod(r[3], 128)
             colorB == WordMod(r[4], 128)
             rankA == ShapeTrial_rank(colorA, shapeA)
             loop == rerollShapeB(r[4], rankA, colorB, shapeB, MaxRerolls)
         IN  Generated([NoTrial EXCEPT !.kind = "shape",
                                       !.shapeA = shapeA,
                                       !.shapeB = loop.trial.shapeB,
                                       !.colorA = colorA,
                                       !.colorB = loop.trial.colorB,
                                       !.correctIsA =
                                           (rankA > ShapeTrial_rank(loop.trial.colorB,
                                                                    loop.trial.shapeB))],
                       loop.rng, loop.returned)

\* XORTrial::generate
XORTrial_generateWith(state) ==
    LET r == Draws(state, 2)
        lightOn == WordMod(r[1], 2) # 0
        choosingRight == WordMod(r[2], 2) # 0
    IN  Generated([NoTrial EXCEPT !.kind = "xor",
                                  !.lightOn = lightOn,
                                  !.choosingRight = choosingRight,
                                  !.isSafe = (lightOn # choosingRight)],
                  r[2], TRUE)

CompositionTrial_generateWith_lightIgnored(state) ==
    LET r == Draws(state, 3)
        sizeA == 32 + WordMod(r[2], 96)
        loop == rerollSizeB(r[3], sizeA, 32 + WordMod(r[3], 96), MaxRerolls)
    IN  Generated([NoTrial EXCEPT !.kind = "composition",
                                  !.lightOn = (WordMod(r[1], 2) # 0),
                                  !.sizeA = sizeA,
                                  !.sizeB = loop.trial,
                                  !.correctIsA = (sizeA > loop.trial)],
                  loop.rng, loop.returned)

\* CompositionTrial::generate
CompositionTrial_generateWith(state) ==
    LET r == Draws(state, 3)
        lightOn == WordMod(r[1], 2) # 0
        sizeA == 32 + WordMod(r[2], 96)
        loop == rerollSizeB(r[3], sizeA, 32 + WordMod(r[3], 96), MaxRerolls)
        aIsLarger == sizeA > loop.trial
    IN  Generated([NoTrial EXCEPT !.kind = "composition",
                                  !.lightOn = lightOn,
                                  !.sizeA = sizeA,
                                  !.sizeB = loop.trial,
                                  !.correctIsA = IF lightOn THEN aIsLarger ELSE ~aIsLarger],
                  loop.rng, loop.returned)

----------------------------------------------------------------------------
(* Initial state: every object as constructed. *)

InitObjects ==
    /\ pc = "start"
    /\ current_puzzle = GENERALIZATION
    /\ puzzle_complete = FALSE
    /\ demo_complete = FALSE
    /\ showIntro = TRUE
    /\ showPuzzleIntro = FALSE
    /\ validator = LearningValidator_new
    /\ gauntlet = GauntletState_new
    /\ seq_puzzle = "START"
    /\ history = <<>>
    /\ loop_i = 0
    /\ maxTrials = 0
    /\ demo_p = -1
    /\ last_trials = 0
    /\ demo_ret = "none"
    /\ vlog = <<>>
    /\ recorded = 0
    /\ presses = <<>>
    /\ call = NoCall
    /\ buffer = <<>>
    /\ writer = FrameWriter_new
    /\ added = <<>>
    /\ stream = <<>>
    /\ frame = NoFrame
    /\ draw = NoDraw
    /\ rng = <<>>
    /\ rolled = <<>>
    /\ generated = NoTrial
    /\ fresh = TRUE

UnitInit == runner = "unit" /\ InitObjects

----------------------------------------------------------------------------
(* Unit harness of LearningValidator: any sequence of its operations. *)

UnitValidatorRecord(success) ==
    /\ Len(vlog) < MaxTrials
    /\ validator' = LearningValidator_recordOutcome(validator, success)
    /\ vlog' = Append(vlog, success)
    /\ call' = [op |-> "recordOutcome", arg |-> 0, chose |-> success,
                key |-> "", ret |-> FALSE,
                train |-> NoTrain,
                press |-> NoPress]
    /\ UNCHANGED <<runner, progVars, gauntletVars, seqVars, history>>
    /\ UNCHANGED ioVars

UnitValidatorReset ==
    /\ validator' = LearningValidator_reset(validator)
    /\ vlog' = <<>>
    /\ call' = [op |-> "reset", arg |-> 0, chose |-> FALSE,
                key |-> "", ret |-> FALSE,
                train |-> NoTrain,
                press |-> NoPress]
    /\ UNCHANGED <<runner, progVars, gauntletVars, seqVars, history>>
    /\ UNCHANGED ioVars

ValidatorNext ==
    \/ \E success \in BOOLEAN : UnitValidatorRecord(success)
    \/ UnitValidatorReset

SpecValidator == UnitInit /\ [][ValidatorNext]_vars

----------------------------------------------------------------------------
(* Claims about LearningValidator, checked under SpecValidator. *)

\* C1: hasLearned() is true exactly when at least 5 outcomes were recorded
\* (total_trials >= 5) and the run of consecutive successes (the successes
\* counter) is at least 4; it is false whenever fewer than 5 were recorded.
C1_HasLearnedIff ==
    /\ validator.total_trials = Len(vlog)
    /\ validator.successes = Streak(vlog)
    /\ hasLearned(validator) <=> (Len(vlog) >= 5 /\ Streak(vlog) >= 4)
    /\ Len(vlog) < 5 => ~hasLearned(validator)

C1_Witness ==
    /\ Len(vlog) = 4
    /\ validator.successes = 4
    /\ ~hasLearned(validator)

\* C2: recordOutcome(false) sets successes to 0, adds 1 to failures and 1 to
\* total_trials; hasLearned() is false right after a failure and after the
\* trial that follows a failure, also when total_trials >= 5.
C2_FailureResets ==
    /\ [][vlog' = Append(vlog, FALSE) =>
            /\ validator'.successes = 0
            /\ validator'.failures = validator.failures + 1
            /\ validator'.total_trials = validator.total_trials + 1]_vars
    /\ [](/\ (Len(vlog) >= 1 /\ ~vlog[Len(vlog)]) => ~hasLearned(validator)
          /\ (Len(vlog) >= 2 /\ ~vlog[Len(vlog) - 1]) => ~hasLearned(validator))

C2_Witness ==
    /\ Len(vlog) = 6
    /\ Streak(SubSeq(vlog, 1, 4)) = 4
    /\ ~vlog[5]
    /\ vlog[6]
    /\ validator.total_trials = 6
    /\ validator.successes = 1

\* C3 as stated: after four successes in the first four trials hasLearned()
\* is false, and a fifth outcome of any value makes it true.
C3_Original ==
    /\ (Len(vlog) = 4 /\ Streak(vlog) = 4) => ~hasLearned(validator)
    /\ (Len(vlog) = 5 /\ Streak(SubSeq(vlog, 1, 4)) = 4) => hasLearned(validator)

\* C3 amended: after four successes in the first four trials hasLearned() is
\* false; a fifth outcome makes it true exactly when that outcome is a
\* success (a failing fifth trial resets the streak and it stays false).
C3_FifthMustSucceed ==
    /\ (Len(vlog) = 4 /\ Streak(vlog) = 4) => ~hasLearned(validator)
    /\ (Len(vlog) = 5 /\ Streak(SubSeq(vlog, 1, 4)) = 4) =>
            (hasLearned(validator) <=> vlog[5])

C3_Witness ==
    /\ Len(vlog) = 5
    /\ Streak(SubSeq(vlog, 1, 4)) = 4
    /\ ~vlog[5]
    /\ ~hasLearned(validator)

----------------------------------------------------------------------------
(* Unit harness of GauntletState. *)

UnitGauntletRecord(success) ==
    /\ recorded < MaxGauntlet
    /\ gauntlet' = GauntletState_recordOutcome(gauntlet, success)
    /\ recorded' = recorded + 1
    /\ call' = [op |-> "recordOutcome", arg |-> 0, chose |-> success,
                key |-> "", ret |-> FALSE,
                train |-> NoTrain,
                press |-> NoPress]
    /\ UNCHANGED <<runner, progVars, validatorVars, seqVars, history>>
    /\ UNCHANGED ioVars

UnitGauntletReset ==
    /\ gauntlet' = GauntletState_reset(gauntlet)
    /\ recorded' = 0
    /\ call' = [op |-> "reset", arg |-> 0, chose |-> FALSE,
                key |-> "", ret |-> FALSE,
                train |-> NoTrain,
                press |-> NoPress]
    /\ UNCHANGED <<runner, progVars, validatorVars, seqVars, history>>
    /\ UNCHANGED ioVars

GauntletNext ==
    \/ \E success \in BOOLEAN : UnitGauntletRecord(success)
    \/ UnitGauntletReset

SpecGauntlet == UnitInit /\ [][GauntletNext]_vars

----------------------------------------------------------------------------
(* Claims about GauntletState, checked under SpecGauntlet. *)

\* C5: each of the first 10 recordOutcome calls since a reset adds 1 to
\* warmup_completed and leaves correct and scored_completed at 0, whatever
\* the success value.
C5_WarmupNotScored ==
    [][(recorded < 10 /\ recorded' = recorded + 1) =>
            /\ gauntlet'.warmup_completed = gauntlet.warmup_completed + 1
            /\ gauntlet.correct = 0 /\ gauntlet'.correct = 0
            /\ gauntlet.scored_completed = 0
            /\ gauntlet'.scored_completed = 0]_vars

C5_Witness ==
    /\ recorded = 10
    /\ call.op = "recordOutcome" /\ call.chose = TRUE
    /\ gauntlet.warmup_completed = 10
    /\ gauntlet.correct = 0

\* C6 as stated: outcomes 1-10 and any outcome recorded after the 30th leave
\* scorePercent() unchanged.
C6_Original ==
    [][(recorded' = recorded + 1 /\ (recorded < 10 \/ recorded >= 30)) =>
            scorePercent(gauntlet') = scorePercent(gauntlet)]_vars

\* C6, what recordOutcome does: outcomes 1-10 leave scorePercent() (and
\* correct and scored_completed) unchanged; every outcome from the 11th on is
\* scored, also one recorded after the 30th: it adds 1 to scored_completed
\* and, when it is a success, 1 to correct.
C6_ScoredFromEleventh ==
    [][recorded' = recorded + 1 =>
            IF recorded < 10
            THEN /\ scorePercent(gauntlet') = scorePercent(gauntlet)
                 /\ gauntlet'.correct = gauntlet.correct
                 /\ gauntlet'.scored_completed = gauntlet.scored_completed
            ELSE /\ gauntlet'.scored_completed = gauntlet.scored_completed + 1
                 /\ gauntlet'.scored_completed = recorded' - 10
                 /\ gauntlet'.correct =
                        gauntlet.correct + (IF call'.chose THEN 1 ELSE 0)]_vars

C6_Witness ==
    /\ recorded = 31
    /\ gauntlet.scored_completed = 21
    /\ gauntlet.correct = 21
    /\ scorePercent(gauntlet) = 100

\* C7: scorePercent() is 0 when scored_completed = 0 and otherwise the floor
\* of correct*100/scored_completed, a value in 0..100; 15 of 20 gives 75.
C7_ScorePercent ==
    LET p == scorePercent(gauntlet)
        n == gauntlet.scored_completed
        c == gauntlet.correct
    IN  /\ n = 0 => p = 0
        /\ n > 0 => (p * n <= c * 100 /\ c * 100 < (p + 1) * n)
        /\ p \in 0..100
        /\ (c = 15 /\ n = 20) => p = 75

C7_Witness ==
    /\ gauntlet.correct = 15
    /\ gauntlet.scored_completed = 20
    /\ scorePercent(gauntlet) = 75

----------------------------------------------------------------------------
(* Unit harness of SequencePuzzle. *)

UnitPressButton(button) ==
    /\ Len(presses) < MaxPresses
    /\ LET r == pressButton(seq_puzzle, button) IN
        /\ seq_puzzle' = r.state
        /\ call' = [op |-> "pressButton", arg |-> button, chose |-> FALSE,
                    key |-> "", ret |-> r.ret,
                    train |-> NoTrain,
                    press |-> [from |-> seq_puzzle, button |-> button, to |-> r.state, ret |-> r.ret]]
    /\ presses' = Append(presses, button)
    /\ UNCHANGED <<runner, progVars, validatorVars, gauntletVars, history>>
    /\ UNCHANGED ioVars

UnitSequenceReset ==
    /\ seq_puzzle' = SequencePuzzle_reset(seq_puzzle)
    /\ presses' = <<>>
    /\ call' = [op |-> "reset", arg |-> 0, chose |-> FALSE,
                key |-> "", ret |-> FALSE,
                train |-> NoTrain,
                press |-> NoPress]
    /\ UNCHANGED <<runner, progVars, validatorVars, gauntletVars, history>>
    /\ UNCHANGED ioVars

SequenceNext ==
    \/ \E button \in Buttons : UnitPressButton(button)
    \/ UnitSequenceReset

SpecSequence == UnitInit /\ [][SequenceNext]_vars

----------------------------------------------------------------------------
(* Claims about SequencePuzzle, checked under SpecSequence. *)

\* C9: pressButton follows the transition table: START+A -> PRESSED_A, true;
\* START+B -> FAIL, false; PRESSED_A+B -> SUCCESS, true; PRESSED_A+A -> FAIL,
\* false; in SUCCESS or FAIL a press changes nothing and returns false.
C9_TransitionTable ==
    [][\A b \in Buttons : presses' = Append(presses, b) =>
            CASE seq_puzzle = "START" /\ b = 0 ->
                    seq_puzzle' = "PRESSED_A" /\ call'.ret = TRUE
              [] seq_puzzle = "START" /\ b = 1 ->
                    seq_puzzle' = "FAIL" /\ call'.ret = FALSE
              [] seq_puzzle = "PRESSED_A" /\ b = 1 ->
                    seq_puzzle' = "SUCCESS" /\ call'.ret = TRUE
              [] seq_puzzle = "PRESSED_A" /\ b = 0 ->
                    seq_puzzle' = "FAIL" /\ call'.ret = FALSE
              [] seq_puzzle \in {"SUCCESS", "FAIL"} ->
                    seq_puzzle' = seq_puzzle /\ call'.ret = FALSE]_vars

C9_Witness ==
    /\ presses = <<0, 0, 1>>
    /\ call.press = [from |-> "FAIL", button |-> 1, to |-> "FAIL", ret |-> FALSE]
    /\ seq_puzzle = "FAIL"

----------------------------------------------------------------------------
(* Trial generators, reduced to what the trial runners read: the ground    *)
(* truth (and, for the XOR and composition puzzles, the booleans it is     *)
(* computed from).  The adversarial generators of puzzles 1 and 2 always   *)
(* set correctIsA.                                                         *)

MushroomTrial_generate(adversarial) ==
    IF adversarial THEN {[correctIsA |-> TRUE]}
    ELSE {[correctIsA |-> aLarger] : aLarger \in BOOLEAN}

ShapeTrial_generate(adversarial) ==
    IF adversarial THEN {[correctIsA |-> TRUE]}
    ELSE {[correctIsA |-> aHigher] : aHigher \in BOOLEAN}

XORTrial_generate ==
    {[lightOn |-> l, choosingRight |-> r, isSafe |-> (l # r)] :
        l \in BOOLEAN, r \in BOOLEAN}

CompositionTrial_generate ==
    {[lightOn |-> l, aIsLarger |-> a,
      correctIsA |-> IF l THEN a ELSE ~a] : l \in BOOLEAN, a \in BOOLEAN}

\* The history summaries of puzzles 1, 2, 3 and 5 are texts formatted from
\* trial data the model leaves out; the model keeps the format.  Puzzle 4
\* uses literals.
SUMMARY_1 == "%s(%d) vs %s(%d)"
SUMMARY_2 == "%s %s vs %s %s"
SUMMARY_3 == "pred %s, was %s"
SUMMARY_5 == "%s - %c(%d) %s %c(%d)"
\* The interactive program writes an em dash where the recorder writes a
\* hyphen; "--" stands for the em dash.
SUMMARY_5_main == "%s -- %c(%d) %s %c(%d)"

----------------------------------------------------------------------------
(* Program start: the initial state draws which program runs. *)

Runners == {"autorun", "game", "interactive"}

Init == runner \in Runners /\ InitObjects

\* Outcomes may still be recorded into the validator (model bound).
CanRecord == Len(vlog) < MaxTrials

----------------------------------------------------------------------------
(* Interactive program (src/main.cpp). *)

\* DemoState::reset
DemoState_reset ==
    /\ validator' = LearningValidator_reset(validator)
    /\ vlog' = <<>>
    /\ gauntlet' = GauntletState_reset(gauntlet)
    /\ recorded' = 0
    /\ puzzle_complete' = FALSE
    /\ history' = History_clear(history)

\* An advance past the last puzzle that resets the state like any other.
DemoState_nextPuzzle_resetAtEnd ==
    IF current_puzzle + 1 >= NUM_PUZZLES
    THEN /\ demo_complete' = TRUE
         /\ DemoState_reset
         /\ UNCHANGED current_puzzle
    ELSE /\ current_puzzle' = current_puzzle + 1
         /\ DemoState_reset
         /\ UNCHANGED demo_complete

DemoState_nextPuzzle_skipOne ==
    IF current_puzzle + 2 >= NUM_PUZZLES
    THEN /\ demo_complete' = TRUE
         /\ UNCHANGED <<current_puzzle, validatorVars, gauntletVars,
                        puzzle_complete, history>>
    ELSE /\ current_puzzle' = current_puzzle + 2
         /\ DemoState_reset
         /\ UNCHANGED demo_complete

\* DemoState::nextPuzzle
DemoState_nextPuzzle ==
    IF current_puzzle + 1 >= NUM_PUZZLES
    THEN /\ demo_complete' = TRUE
         /\ UNCHANGED <<current_puzzle, validatorVars, gauntletVars,
                        puzzle_complete, history>>
    ELSE /\ current_puzzle' = current_puzzle + 1
         /\ DemoState_reset
         /\ UNCHANGED demo_complete

\* runPuzzle1Trial(DemoState&, Renderer&)
runPuzzle1Trial ==
    /\ CanRecord
    /\ \E trial \in MushroomTrial_generate(isFirstTrial(validator)),
          choseA \in BOOLEAN :
        LET correct == honestEvaluation(choseA, trial.correctIsA)
            v == LearningValidator_recordOutcome(validator, correct)
        IN  /\ validator' = v
            /\ vlog' = Append(vlog, correct)
            /\ history' = History_add(history, v.total_trials, correct, SUMMARY_1)
            /\ puzzle_complete' = IF hasLearned(v) THEN TRUE ELSE puzzle_complete
            /\ call' = [op |-> "runPuzzle1Trial", arg |-> 0, chose |-> choseA,
                        key |-> "", ret |-> FALSE,
                        train |-> Train(0, 0, trial.correctIsA),
                        press |-> NoPress]
            /\ generated' = [NoTrial EXCEPT !.n = v.total_trials,
                                             !.kind = "mushroom",
                                             !.adversarial = isFirstTrial(validator),
                                             !.correctIsA = trial.correctIsA]
    /\ UNCHANGED <<gauntletVars, seqVars>>

\* runPuzzle2Trial(DemoState&, Renderer&)
runPuzzle2Trial ==
    /\ CanRecord
    /\ \E trial \in ShapeTrial_generate(isFirstTrial(validator)),
          choseA \in BOOLEAN :
        LET correct == honestEvaluation(choseA, trial.correctIsA)
            v == LearningValidator_recordOutcome(validator, correct)
        IN  /\ validator' = v
            /\ vlog' = Append(vlog, correct)
            /\ history' = History_add(history, v.total_trials, correct, SUMMARY_2)
            /\ puzzle_complete' = IF hasLearned(v) THEN TRUE ELSE puzzle_complete
            /\ call' = [op |-> "runPuzzle2Trial", arg |-> 0, chose |-> choseA,
                        key |-> "", ret |-> FALSE,
                        train |-> Train(0, 0, trial.correctIsA),
                        press |-> NoPress]
            /\ generated' = [NoTrial EXCEPT !.n = v.total_trials,
                                             !.kind = "shape",
                                             !.adversarial = isFirstTrial(validator),
                                             !.correctIsA = trial.correctIsA]
    /\ UNCHANGED <<gauntletVars, seqVars>>

\* runPuzzle3Trial(DemoState&, Renderer&)
runPuzzle3Trial ==
    /\ CanRecord
    /\ \E trial \in XORTrial_generate, predictedSafe \in BOOLEAN :
        LET correct == honestEvaluation(predictedSafe, trial.isSafe)
            v == LearningValidator_recordOutcome(validator, correct)
        IN  /\ validator' = v
            /\ vlog' = Append(vlog, correct)
            /\ history' = History_add(history, v.total_trials, correct, SUMMARY_3)
            /\ puzzle_complete' = IF hasLearned(v) THEN TRUE ELSE puzzle_complete
            /\ call' = [op |-> "runPuzzle3Trial", arg |-> 0, chose |-> predictedSafe,
                        key |-> "", ret |-> FALSE,
                        train |-> Train(0, 0, trial.isSafe),
                        press |-> NoPress]
            /\ generated' = [NoTrial EXCEPT !.n = v.total_trials,
                                             !.kind = "xor",
                                             !.lightOn = trial.lightOn,
                                             !.choosingRight = trial.choosingRight,
                                             !.isSafe = trial.isSafe]
    /\ UNCHANGED <<gauntletVars, seqVars>>

\* runPuzzle4Step(DemoState&, Renderer&)
runPuzzle4Step ==
    /\ CanRecord
    /\ \E action \in Buttons :
        LET last == lastActionInput(seq_puzzle)
            r == pressButton(seq_puzzle, action)
            trialComplete == isSuccess(r.state) \/ isFail(r.state)
            correct == isSuccess(r.state)
            resultStr == IF isSuccess(r.state) THEN "A->B SUCCESS"
                         ELSE IF action = 1 THEN "B first FAIL" ELSE "A->A FAIL"
            v == IF trialComplete
                 THEN LearningValidator_recordOutcome(validator, correct)
                 ELSE validator
            pr == [from |-> seq_puzzle, button |-> action,
                   to |-> r.state, ret |-> r.ret]
        IN  /\ seq_puzzle' = IF trialComplete THEN SequencePuzzle_reset(r.state)
                             ELSE r.state
            /\ presses' = IF trialComplete THEN <<>> ELSE Append(presses, action)
            /\ validator' = v
            /\ vlog' = IF trialComplete THEN Append(vlog, correct) ELSE vlog
            /\ history' = IF trialComplete
                          THEN History_add(history, v.total_trials, correct, resultStr)
                          ELSE history
            /\ puzzle_complete' = IF trialComplete /\ hasLearned(v) THEN TRUE
                                  ELSE puzzle_complete
            /\ call' = [op |-> "runPuzzle4Step", arg |-> action, chose |-> FALSE,
                        key |-> "", ret |-> FALSE,
                        train |-> Train(last, action, ~isFail(r.state)),
                        press |-> pr]
            /\ generated' = NoTrial
    /\ UNCHANGED gauntletVars

\* runPuzzle5Trial(DemoState&, Renderer&)
runPuzzle5Trial ==
    IF isComplete(gauntlet)
    THEN /\ puzzle_complete' = TRUE
         /\ call' = [op |-> "runPuzzle5Trial", arg |-> 0, chose |-> FALSE,
                     key |-> "", ret |-> FALSE,
                     train |-> NoTrain,
                     press |-> NoPress]
         /\ generated' = NoTrial
         /\ UNCHANGED <<validatorVars, gauntletVars, seqVars, history>>
    ELSE /\ \E trial \in CompositionTrial_generate, choseA \in BOOLEAN :
            LET correct == honestEvaluation(choseA, trial.correctIsA)
                g == GauntletState_recordOutcome(gauntlet, correct)
            IN  /\ gauntlet' = g
                /\ recorded' = recorded + 1
                /\ history' = History_add(history, currentTrials(g), correct, SUMMARY_5_main)
                /\ puzzle_complete' = IF isComplete(g) THEN TRUE ELSE puzzle_complete
                /\ call' = [op |-> "runPuzzle5Trial", arg |-> 0, chose |-> choseA,
                            key |-> "", ret |-> FALSE,
                            train |-> Train(0, 0, trial.correctIsA),
                            press |-> NoPress]
                /\ generated' = [NoTrial EXCEPT !.n = currentTrials(g),
                                                 !.kind = "composition",
                                                 !.lightOn = trial.lightOn,
                                                 !.correctIsA = trial.correctIsA]
         /\ UNCHANGED <<validatorVars, seqVars>>

Keys == {"SPACE", "LF", "CR", "q", "Q", "x"}

isConfirmKey_orSpace(key) == key \in {"LF", "CR", "SPACE"}

\* main(): key == '\n' || key == '\r'
isConfirmKey(key) == key \in {"LF", "CR"}

\* main(): up to the first readKey().
InteractiveStart ==
    /\ runner = "interactive" /\ pc = "start"
    /\ pc' = "loop"
    /\ call' = [op |-> "main", arg |-> 0, chose |-> FALSE,
                key |-> "", ret |-> FALSE,
                train |-> NoTrain,
                press |-> NoPress]
    /\ generated' = NoTrial
    /\ UNCHANGED <<runner, current_puzzle, puzzle_complete, demo_complete,
                   showIntro, showPuzzleIntro, validatorVars, gauntletVars,
                   seqVars, history, loop_i, maxTrials, demo_p, last_trials,
                   demo_ret>>
    /\ UNCHANGED ioRest
    /\ UNCHANGED fresh

KeyCall(key) == [op |-> "key", arg |-> 0, chose |-> FALSE,
                 key |-> key, ret |-> FALSE,
                 train |-> NoTrain,
                 press |-> NoPress]

\* main(): one iteration of while (!state.demo_complete), for the key read.
InteractiveKey(key) ==
    /\ runner = "interactive" /\ pc = "loop"
    /\ UNCHANGED <<runner, loop_i, maxTrials, demo_p, last_trials,
                   demo_ret>>
    /\ IF key \in {"q", "Q"}
       THEN /\ pc' = "exit"
            /\ call' = KeyCall(key)
            /\ generated' = NoTrial
            /\ UNCHANGED <<current_puzzle, puzzle_complete, demo_complete,
                           showIntro, showPuzzleIntro, validatorVars,
                           gauntletVars, seqVars, history>>
       ELSE IF showIntro
       THEN /\ showIntro' = (key # "SPACE")
            /\ showPuzzleIntro' = IF key = "SPACE" THEN TRUE ELSE showPuzzleIntro
            /\ call' = KeyCall(key)
            /\ generated' = NoTrial
            /\ UNCHANGED <<pc, current_puzzle, puzzle_complete, demo_complete,
                           validatorVars, gauntletVars, seqVars, history>>
       ELSE IF showPuzzleIntro /\ key # "SPACE"
       THEN /\ call' = KeyCall(key)
            /\ generated' = NoTrial
            /\ UNCHANGED <<pc, current_puzzle, puzzle_complete, demo_complete,
                           showIntro, showPuzzleIntro, validatorVars,
                           gauntletVars, seqVars, history>>
       ELSE IF puzzle_complete
       THEN /\ IF isConfirmKey(key)
               THEN /\ DemoState_nextPuzzle
                    /\ showPuzzleIntro' = IF demo_complete' THEN FALSE ELSE TRUE
                    /\ pc' = IF demo_complete' THEN "victory" ELSE "loop"
               ELSE /\ showPuzzleIntro' = FALSE
                    /\ UNCHANGED <<pc, current_puzzle, puzzle_complete,
                                   demo_complete, validatorVars, gauntletVars,
                                   history>>
            /\ call' = KeyCall(key)
            /\ generated' = NoTrial
            /\ UNCHANGED <<showIntro, seqVars>>
       ELSE IF key = "SPACE"
       THEN /\ showPuzzleIntro' = FALSE
            /\ CASE current_puzzle = GENERALIZATION -> runPuzzle1Trial
                 [] current_puzzle = FEATURE_SELECTION -> runPuzzle2Trial
                 [] current_puzzle = XOR_CONTEXT -> runPuzzle3Trial
                 [] current_puzzle = SEQUENCE -> runPuzzle4Step
                 [] current_puzzle = COMPOSITION -> runPuzzle5Trial
            /\ UNCHANGED <<pc, current_puzzle, demo_complete, showIntro>>
       ELSE /\ call' = KeyCall(key)
            /\ generated' = NoTrial
            /\ UNCHANGED <<pc, current_puzzle, puzzle_complete, demo_complete,
                           showIntro, showPuzzleIntro, validatorVars,
                           gauntletVars, seqVars, history>>
    /\ UNCHANGED ioRest
    /\ fresh' = IF call'.op # "key" THEN FALSE
              ELSE IF current_puzzle' # current_puzzle THEN TRUE ELSE fresh

\* main(): the victory screen, which only the quit key leaves.
InteractiveVictoryKey(key) ==
    /\ runner = "interactive" /\ pc = "victory"
    /\ pc' = IF key \in {"q", "Q"} THEN "exit" ELSE "victory"
    /\ call' = [op |-> "victoryKey", arg |-> 0, chose |-> FALSE,
                key |-> key, ret |-> FALSE,
                train |-> NoTrain,
                press |-> NoPress]
    /\ generated' = NoTrial
    /\ UNCHANGED <<runner, current_puzzle, puzzle_complete, demo_complete,
                   showIntro, showPuzzleIntro, validatorVars, gauntletVars,
                   seqVars, history, loop_i, maxTrials, demo_p, last_trials,
                   demo_ret>>
    /\ UNCHANGED ioRest
    /\ UNCHANGED fresh

InteractiveNext ==
    \/ InteractiveStart
    \/ \E key \in Keys : InteractiveKey(key)
    \/ \E key \in Keys : InteractiveVictoryKey(key)

SpecInteractive == Init /\ [][InteractiveNext]_vars

----------------------------------------------------------------------------
(* Auto-run recorder (autorun main and its runPuzzleN loops). *)

\* main(): header and the two intro frames.
AutorunStart ==
    /\ runner = "autorun" /\ pc = "start"
    /\ pc' = "enter"
    /\ call' = [op |-> "main", arg |-> 0, chose |-> FALSE,
                key |-> "", ret |-> FALSE,
                train |-> NoTrain,
                press |-> NoPress]
    /\ generated' = NoTrial
    /\ UNCHANGED <<runner, current_puzzle, puzzle_complete, demo_complete,
                   showIntro, showPuzzleIntro, validatorVars, gauntletVars,
                   seqVars, history, loop_i, maxTrials, demo_p, last_trials,
                   demo_ret>>
    /\ UNCHANGED ioRest
    /\ UNCHANGED fresh

\* runPuzzleN(): the puzzle intro frame and the resets before the loop.
\* runPuzzle1..4 reset the validator, runPuzzle5 the gauntlet; runPuzzle4
\* constructs its local SequencePuzzle.
AutorunEnterPuzzle ==
    /\ runner = "autorun" /\ pc = "enter"
    /\ pc' = "loop"
    /\ puzzle_complete' = FALSE
    /\ history' = History_clear(history)
    /\ IF current_puzzle = COMPOSITION
       THEN /\ gauntlet' = GauntletState_reset(gauntlet)
            /\ recorded' = 0
            /\ UNCHANGED <<validatorVars, seqVars>>
       ELSE /\ validator' = LearningValidator_reset(validator)
            /\ vlog' = <<>>
            /\ seq_puzzle' = IF current_puzzle = SEQUENCE THEN "START"
                             ELSE seq_puzzle
            /\ presses' = IF current_puzzle = SEQUENCE THEN <<>> ELSE presses
            /\ UNCHANGED gauntletVars
    /\ call' = [op |-> "runPuzzle", arg |-> current_puzzle, chose |-> FALSE,
                key |-> "", ret |-> FALSE,
                train |-> NoTrain,
                press |-> NoPress]
    /\ generated' = NoTrial
    /\ UNCHANGED <<runner, current_puzzle, demo_complete, showIntro,
                   showPuzzleIntro, loop_i, maxTrials, demo_p, last_trials,
                   demo_ret>>
    /\ UNCHANGED ioRest
    /\ fresh' = TRUE

\* runPuzzle1(): one iteration of while (!validator.hasLearned()).
Autorun_runPuzzle1 ==
    /\ ~hasLearned(validator)
    /\ CanRecord
    /\ \E trial \in MushroomTrial_generate(isFirstTrial(validator)),
          choseA \in BOOLEAN :
        LET correct == honestEvaluation(choseA, trial.correctIsA)
            v == LearningValidator_recordOutcome(validator, correct)
        IN  /\ validator' = v
            /\ vlog' = Append(vlog, correct)
            /\ history' = History_add(history, v.total_trials, correct, SUMMARY_1)
            /\ puzzle_complete' = hasLearned(v)
            /\ call' = [op |-> "runPuzzle1", arg |-> 0, chose |-> choseA,
                        key |-> "", ret |-> FALSE,
                        train |-> Train(0, 0, trial.correctIsA),
                        press |-> NoPress]
            /\ generated' = [NoTrial EXCEPT !.n = v.total_trials,
                                             !.kind = "mushroom",
                                             !.adversarial = isFirstTrial(validator),
                                             !.correctIsA = trial.correctIsA]
    /\ UNCHANGED <<gauntletVars, seqVars>>

\* runPuzzle2(): one iteration of while (!validator.hasLearned()).
Autorun_runPuzzle2 ==
    /\ ~hasLearned(validator)
    /\ CanRecord
    /\ \E trial \in ShapeTrial_generate(isFirstTrial(validator)),
          choseA \in BOOLEAN :
        LET correct == honestEvaluation(choseA, trial.correctIsA)
            v == LearningValidator_recordOutcome(validator, correct)
        IN  /\ validator' = v
            /\ vlog' = Append(vlog, correct)
            /\ history' = History_add(history, v.total_trials, correct, SUMMARY_2)
            /\ puzzle_complete' = hasLearned(v)
            /\ call' = [op |-> "runPuzzle2", arg |-> 0, chose |-> choseA,
                        key |-> "", ret |-> FALSE,
                        train |-> Train(0, 0, trial.correctIsA),
                        press |-> NoPress]
            /\ generated' = [NoTrial EXCEPT !.n = v.total_trials,
                                             !.kind = "shape",
                                             !.adversarial = isFirstTrial(validator),
                                             !.correctIsA = trial.correctIsA]
    /\ UNCHANGED <<gauntletVars, seqVars>>

\* runPuzzle3(): one iteration of while (!validator.hasLearned()).
Autorun_runPuzzle3 ==
    /\ ~hasLearned(validator)
    /\ CanRecord
    /\ \E trial \in XORTrial_generate, predictedSafe \in BOOLEAN :
        LET correct == honestEvaluation(predictedSafe, trial.isSafe)
            v == LearningValidator_recordOutcome(validator, correct)
        IN  /\ validator' = v
            /\ vlog' = Append(vlog, correct)
            /\ history' = History_add(history, v.total_trials, correct, SUMMARY_3)
            /\ puzzle_complete' = hasLearned(v)
            /\ call' = [op |-> "runPuzzle3", arg |-> 0, chose |-> predictedSafe,
                        key |-> "", ret |-> FALSE,
                        train |-> Train(0, 0, trial.isSafe),
                        press |-> NoPress]
            /\ generated' = [NoTrial EXCEPT !.n = v.total_trials,
                                             !.kind = "xor",
                                             !.lightOn = trial.lightOn,
                                             !.choosingRight = trial.choosingRight,
                                             !.isSafe = trial.isSafe]
    /\ UNCHANGED <<gauntletVars, seqVars>>

\* runPuzzle4(): one iteration of while (!validator.hasLearned()).
Autorun_runPuzzle4 ==
    /\ ~hasLearned(validator)
    /\ CanRecord
    /\ \E action \in Buttons :
        LET last == lastActionInput(seq_puzzle)
            r == pressButton(seq_puzzle, action)
            pr == [from |-> seq_puzzle, button |-> action,
                   to |-> r.state, ret |-> r.ret]
        IN  /\ IF isSuccess(r.state)
               THEN LET v == LearningValidator_recordOutcome(validator, TRUE) IN
                    /\ validator' = v
                    /\ vlog' = Append(vlog, TRUE)
                    /\ history' = History_add(history, v.total_trials, TRUE,
                                              "A->B SUCCESS")
                    /\ seq_puzzle' = SequencePuzzle_reset(r.state)
                    /\ presses' = <<>>
                    /\ puzzle_complete' = hasLearned(v)
                    /\ call' = [op |-> "runPuzzle4", arg |-> action, chose |-> FALSE,
                                key |-> "", ret |-> FALSE,
                                train |-> Train(last, action, TRUE),
                                press |-> pr]
                    /\ generated' = NoTrial
               ELSE IF isFail(r.state)
               THEN LET v == LearningValidator_recordOutcome(validator, FALSE) IN
                    /\ validator' = v
                    /\ vlog' = Append(vlog, FALSE)
                    /\ history' = History_add(history, v.total_trials, FALSE,
                                    IF action = 1 THEN "B first FAIL"
                                                  ELSE "A->A FAIL")
                    /\ seq_puzzle' = SequencePuzzle_reset(r.state)
                    /\ presses' = <<>>
                    /\ puzzle_complete' = hasLearned(v)
                    /\ call' = [op |-> "runPuzzle4", arg |-> action, chose |-> FALSE,
                                key |-> "", ret |-> FALSE,
                                train |-> Train(last, action, FALSE),
                                press |-> pr]
                    /\ generated' = NoTrial
               ELSE /\ seq_puzzle' = r.state
                    /\ presses' = Append(presses, action)
                    /\ puzzle_complete' = hasLearned(validator)
                    /\ call' = [op |-> "runPuzzle4", arg |-> action, chose |-> FALSE,
                                key |-> "", ret |-> FALSE,
                                train |-> Train(last, action, TRUE),
                                press |-> pr]
                    /\ generated' = NoTrial
                    /\ UNCHANGED <<validatorVars, history>>
    /\ UNCHANGED gauntletVars

\* runPuzzle5(): one iteration of while (!gauntlet.isComplete()).
Autorun_runPuzzle5 ==
    /\ ~isComplete(gauntlet)
    /\ \E trial \in CompositionTrial_generate, choseA \in BOOLEAN :
        LET correct == honestEvaluation(choseA, trial.correctIsA)
            g == GauntletState_recordOutcome(gauntlet, correct)
        IN  /\ gauntlet' = g
            /\ recorded' = recorded + 1
            /\ history' = History_add(history, currentTrials(g), correct, SUMMARY_5)
            /\ puzzle_complete' = isComplete(g)
            /\ call' = [op |-> "runPuzzle5", arg |-> 0, chose |-> choseA,
                        key |-> "", ret |-> FALSE,
                        train |-> Train(0, 0, trial.correctIsA),
                        press |-> NoPress]
            /\ generated' = [NoTrial EXCEPT !.n = currentTrials(g),
                                             !.kind = "composition",
                                             !.lightOn = trial.lightOn,
                                             !.correctIsA = trial.correctIsA]
    /\ UNCHANGED <<validatorVars, seqVars>>

\* One loop iteration of the running runPuzzleN; the loop is left when the
\* iteration completed the puzzle.
AutorunTrial ==
    /\ runner = "autorun" /\ pc = "loop"
    /\ CASE current_puzzle = GENERALIZATION -> Autorun_runPuzzle1
         [] current_puzzle = FEATURE_SELECTION -> Autorun_runPuzzle2
         [] current_puzzle = XOR_CONTEXT -> Autorun_runPuzzle3
         [] current_puzzle = SEQUENCE -> Autorun_runPuzzle4
         [] current_puzzle = COMPOSITION -> Autorun_runPuzzle5
    /\ pc' = IF puzzle_complete' THEN "returned" ELSE "loop"
    /\ UNCHANGED <<runner, current_puzzle, demo_complete, showIntro,
                   showPuzzleIntro, loop_i, maxTrials, demo_p, last_trials,
                   demo_ret>>
    /\ UNCHANGED ioRest
    /\ fresh' = FALSE

\* main(): runPuzzleN returned; the next runPuzzle is called, or after
\* runPuzzle5 the victory frame is written and main returns.
AutorunAdvance ==
    /\ runner = "autorun" /\ pc = "returned"
    /\ IF current_puzzle = COMPOSITION
       THEN /\ pc' = "exit"
            /\ call' = [op |-> "renderVictory", arg |-> gauntlet.correct, chose |-> FALSE,
                        key |-> "", ret |-> FALSE,
                        train |-> NoTrain,
                        press |-> NoPress]
            /\ generated' = NoTrial
            /\ UNCHANGED current_puzzle
       ELSE /\ pc' = "enter"
            /\ current_puzzle' = current_puzzle + 1
            /\ call' = [op |-> "return", arg |-> current_puzzle, chose |-> FALSE,
                        key |-> "", ret |-> FALSE,
                        train |-> NoTrain,
                        press |-> NoPress]
            /\ generated' = NoTrial
    /\ UNCHANGED <<runner, puzzle_complete, demo_complete, showIntro,
                   showPuzzleIntro, validatorVars, gauntletVars, seqVars,
                   history, loop_i, maxTrials, demo_p, last_trials,
                   demo_ret>>
    /\ UNCHANGED ioRest
    /\ UNCHANGED fresh

AutorunNext ==
    \/ AutorunStart
    \/ AutorunEnterPuzzle
    \/ AutorunTrial
    \/ AutorunAdvance

SpecAutorun == Init /\ [][AutorunNext]_vars

----------------------------------------------------------------------------
(* Game (game.hpp, game.cpp): its public operations, called in any order   *)
(* by a caller.  runPuzzleToCompletion and runFullDemo run many trials,    *)
(* each with its own network decision, so they advance one trial per step; *)
(* no other operation runs while pc = "rptc".                              *)

TrialCaps == {SmallCap, LargeCap}

\* GameState::reset
GameState_reset ==
    /\ validator' = LearningValidator_reset(validator)
    /\ vlog' = <<>>
    /\ gauntlet' = GauntletState_reset(gauntlet)
    /\ recorded' = 0
    /\ puzzle_complete' = FALSE

\* Game::runPuzzle1Trial; ret is the value returned.
Game_runPuzzle1Trial(ret) ==
    /\ CanRecord
    /\ \E trial \in MushroomTrial_generate(isFirstTrial(validator)),
          choseA \in BOOLEAN :
        LET correct == honestEvaluation(choseA, trial.correctIsA)
            v == LearningValidator_recordOutcome(validator, correct)
        IN  /\ validator' = v
            /\ vlog' = Append(vlog, correct)
            /\ puzzle_complete' = IF hasLearned(v) THEN TRUE ELSE puzzle_complete
            /\ ret = hasLearned(v)
            /\ call' = [op |-> "runPuzzle1Trial", arg |-> 0, chose |-> choseA,
                        key |-> "", ret |-> ret,
                        train |-> Train(0, 0, trial.correctIsA),
                        press |-> NoPress]
            /\ generated' = [NoTrial EXCEPT !.n = v.total_trials,
                                             !.kind = "mushroom",
                                             !.adversarial = isFirstTrial(validator),
                                             !.correctIsA = trial.correctIsA]
    /\ UNCHANGED <<gauntletVars, seqVars>>

\* Game::runPuzzle2Trial
Game_runPuzzle2Trial(ret) ==
    /\ CanRecord
    /\ \E trial \in ShapeTrial_generate(isFirstTrial(validator)),
          choseA \in BOOLEAN :
        LET correct == honestEvaluation(choseA, trial.correctIsA)
            v == LearningValidator_recordOutcome(validator, correct)
        IN  /\ validator' = v
            /\ vlog' = Append(vlog, correct)
            /\ puzzle_complete' = IF hasLearned(v) THEN TRUE ELSE puzzle_complete
            /\ ret = hasLearned(v)
            /\ call' = [op |-> "runPuzzle2Trial", arg |-> 0, chose |-> choseA,
                        key |-> "", ret |-> ret,
                        train |-> Train(0, 0, trial.correctIsA),
                        press |-> NoPress]
            /\ generated' = [NoTrial EXCEPT !.n = v.total_trials,
                                             !.kind = "shape",
                                             !.adversarial = isFirstTrial(validator),
                                             !.correctIsA = trial.correctIsA]
    /\ UNCHANGED <<gauntletVars, seqVars>>

\* Game::runPuzzle3Trial
Game_runPuzzle3Trial(ret) ==
    /\ CanRecord
    /\ \E trial \in XORTrial_generate, predictedSafe \in BOOLEAN :
        LET correct == honestEvaluation(predictedSafe, trial.isSafe)
            v == LearningValidator_recordOutcome(validator, correct)
        IN  /\ validator' = v
            /\ vlog' = Append(vlog, correct)
            /\ puzzle_complete' = IF hasLearned(v) THEN TRUE ELSE puzzle_complete
            /\ ret = hasLearned(v)
            /\ call' = [op |-> "runPuzzle3Trial", arg |-> 0, chose |-> predictedSafe,
                        key |-> "", ret |-> ret,
                        train |-> Train(0, 0, trial.isSafe),
                        press |-> NoPress]
            /\ generated' = [NoTrial EXCEPT !.n = v.total_trials,
                                             !.kind = "xor",
                                             !.lightOn = trial.lightOn,
                                             !.choosingRight = trial.choosingRight,
                                             !.isSafe = trial.isSafe]
    /\ UNCHANGED <<gauntletVars, seqVars>>

\* Game::runPuzzle4Trial
Game_runPuzzle4Trial(ret) ==
    /\ CanRecord
    /\ \E action \in Buttons :
        LET last == lastActionInput(seq_puzzle)
            r == pressButton(seq_puzzle, action)
            pr == [from |-> seq_puzzle, button |-> action,
                   to |-> r.state, ret |-> r.ret]
        IN  /\ IF isSuccess(r.state)
               THEN LET v == LearningValidator_recordOutcome(validator, TRUE) IN
                    /\ validator' = v
                    /\ vlog' = Append(vlog, TRUE)
                    /\ seq_puzzle' = SequencePuzzle_reset(r.state)
                    /\ presses' = <<>>
                    /\ puzzle_complete' = IF hasLearned(v) THEN TRUE
                                          ELSE puzzle_complete
                    /\ ret = hasLearned(v)
                    /\ call' = [op |-> "runPuzzle4Trial", arg |-> action, chose |-> FALSE,
                                key |-> "", ret |-> ret,
                                train |-> Train(last, action, TRUE),
                                press |-> pr]
                    /\ generated' = NoTrial
               ELSE IF isFail(r.state)
               THEN /\ validator' = LearningValidator_recordOutcome(validator, FALSE)
                    /\ vlog' = Append(vlog, FALSE)
                    /\ seq_puzzle' = SequencePuzzle_reset(r.state)
                    /\ presses' = <<>>
                    /\ ret = FALSE
                    /\ call' = [op |-> "runPuzzle4Trial", arg |-> action, chose |-> FALSE,
                                key |-> "", ret |-> ret,
                                train |-> Train(last, action, FALSE),
                                press |-> pr]
                    /\ generated' = NoTrial
                    /\ UNCHANGED puzzle_complete
               ELSE /\ seq_puzzle' = r.state
                    /\ presses' = Append(presses, action)
                    /\ ret = FALSE
                    /\ call' = [op |-> "runPuzzle4Trial", arg |-> action, chose |-> FALSE,
                                key |-> "", ret |-> ret,
                                train |-> Train(last, action, TRUE),
                                press |-> pr]
                    /\ generated' = NoTrial
                    /\ UNCHANGED <<validatorVars, puzzle_complete>>
    /\ UNCHANGED gauntletVars

\* Game::runPuzzle5Trial
Game_runPuzzle5Trial(ret) ==
    IF isComplete(gauntlet)
    THEN /\ puzzle_complete' = TRUE
         /\ ret = TRUE
         /\ call' = [op |-> "runPuzzle5Trial", arg |-> 0, chose |-> FALSE,
                     key |-> "", ret |-> ret,
                     train |-> NoTrain,
                     press |-> NoPress]
         /\ generated' = NoTrial
         /\ UNCHANGED <<validatorVars, gauntletVars, seqVars>>
    ELSE /\ \E trial \in CompositionTrial_generate, choseA \in BOOLEAN :
            LET correct == honestEvaluation(choseA, trial.correctIsA)
                g == GauntletState_recordOutcome(gauntlet, correct)
            IN  /\ gauntlet' = g
                /\ recorded' = recorded + 1
                /\ puzzle_complete' = IF isComplete(g) THEN TRUE
                                      ELSE puzzle_complete
                /\ ret = isComplete(g)
                /\ call' = [op |-> "runPuzzle5Trial", arg |-> 0, chose |-> choseA,
                            key |-> "", ret |-> ret,
                            train |-> Train(0, 0, trial.correctIsA),
                            press |-> NoPress]
                /\ generated' = [NoTrial EXCEPT !.n = currentTrials(g),
                                                 !.kind = "composition",
                                                 !.lightOn = trial.lightOn,
                                                 !.correctIsA = trial.correctIsA]
         /\ UNCHANGED <<validatorVars, seqVars>>

\* A dispatch that runs the trial of puzzle 1 whatever the current puzzle is.
Game_runTrial_alwaysFirst(ret) == Game_runPuzzle1Trial(ret)

\* Game::runTrial
Game_runTrial(ret) ==
    CASE current_puzzle = GENERALIZATION -> Game_runPuzzle1Trial(ret)
      [] current_puzzle = FEATURE_SELECTION -> Game_runPuzzle2Trial(ret)
      [] current_puzzle = XOR_CONTEXT -> Game_runPuzzle3Trial(ret)
      [] current_puzzle = SEQUENCE -> Game_runPuzzle4Trial(ret)
      [] current_puzzle = COMPOSITION -> Game_runPuzzle5Trial(ret)

\* Game::Game
GameStart ==
    /\ runner = "game" /\ pc = "start"
    /\ pc' = "idle"
    /\ call' = [op |-> "Game", arg |-> 0, chose |-> FALSE,
                key |-> "", ret |-> FALSE,
                train |-> NoTrain,
                press |-> NoPress]
    /\ generated' = NoTrial
    /\ UNCHANGED <<runner, current_puzzle, puzzle_complete, demo_complete,
                   showIntro, showPuzzleIntro, validatorVars, gauntletVars,
                   seqVars, history, loop_i, maxTrials, demo_p, last_trials,
                   demo_ret>>
    /\ UNCHANGED ioRest
    /\ UNCHANGED fresh

\* A caller's game.runTrial().
GameRunTrial ==
    /\ runner = "game" /\ pc = "idle"
    /\ \E ret \in BOOLEAN : Game_runTrial(ret)
    /\ UNCHANGED <<runner, pc, current_puzzle, demo_complete, showIntro,
                   showPuzzleIntro, history, loop_i, maxTrials, demo_p>>
    /\ last_trials' = 0
    /\ demo_ret' = "none"
    /\ UNCHANGED ioRest
    /\ fresh' = FALSE

\* A caller's game.resetPuzzle(): GameState::reset, then resetNetwork.
GameResetPuzzle ==
    /\ runner = "game" /\ pc = "idle"
    /\ GameState_reset
    /\ seq_puzzle' = IF current_puzzle = SEQUENCE
                     THEN SequencePuzzle_reset(seq_puzzle) ELSE seq_puzzle
    /\ presses' = IF current_puzzle = SEQUENCE THEN <<>> ELSE presses
    /\ call' = [op |-> "resetPuzzle", arg |-> 0, chose |-> FALSE,
                key |-> "", ret |-> FALSE,
                train |-> NoTrain,
                press |-> NoPress]
    /\ generated' = NoTrial
    /\ UNCHANGED <<runner, pc, current_puzzle, demo_complete, showIntro,
                   showPuzzleIntro, history, loop_i, maxTrials, demo_p>>
    /\ last_trials' = 0
    /\ demo_ret' = "none"
    /\ UNCHANGED ioRest
    /\ fresh' = TRUE

\* GameState::nextPuzzle; ret is the value returned.
GameState_nextPuzzle(ret) ==
    IF current_puzzle + 1 >= NUM_PUZZLES
    THEN /\ demo_complete' = TRUE
         /\ ret = FALSE
         /\ UNCHANGED <<current_puzzle, validatorVars, gauntletVars,
                        puzzle_complete>>
    ELSE /\ current_puzzle' = current_puzzle + 1
         /\ GameState_reset
         /\ ret = TRUE
         /\ UNCHANGED demo_complete

\* A caller's game.nextPuzzle().
GameNextPuzzle ==
    /\ runner = "game" /\ pc = "idle"
    /\ \E ret \in BOOLEAN :
        /\ GameState_nextPuzzle(ret)
        /\ call' = [op |-> "nextPuzzle", arg |-> 0, chose |-> FALSE,
                    key |-> "", ret |-> ret,
                    train |-> NoTrain,
                    press |-> NoPress]
        /\ generated' = NoTrial
    /\ UNCHANGED <<runner, pc, showIntro, showPuzzleIntro, seqVars, history,
                   loop_i, maxTrials, demo_p>>
    /\ last_trials' = 0
    /\ demo_ret' = "none"
    /\ UNCHANGED ioRest
    /\ fresh' = IF current_puzzle' # current_puzzle THEN TRUE ELSE fresh

\* A caller's game.runPuzzleToCompletion(cap): state_.reset() and the loop
\* entry (every cap of TrialCaps is positive, so the loop is entered).
GameRunPuzzleToCompletion(cap) ==
    /\ runner = "game" /\ pc = "idle"
    /\ pc' = "rptc"
    /\ GameState_reset
    /\ loop_i' = 0
    /\ maxTrials' = cap
    /\ call' = [op |-> "runPuzzleToCompletion", arg |-> cap, chose |-> FALSE,
                key |-> "", ret |-> FALSE,
                train |-> NoTrain,
                press |-> NoPress]
    /\ generated' = NoTrial
    /\ UNCHANGED <<runner, current_puzzle, demo_complete, showIntro,
                   showPuzzleIntro, seqVars, history, demo_p>>
    /\ last_trials' = 0
    /\ demo_ret' = "none"
    /\ UNCHANGED ioRest
    /\ fresh' = TRUE

\* A caller's game.runFullDemo(cap): p = 0 and the first
\* runPuzzleToCompletion(cap) up to its loop.
GameRunFullDemo(cap) ==
    /\ runner = "game" /\ pc = "idle"
    /\ pc' = "rptc"
    /\ GameState_reset
    /\ loop_i' = 0
    /\ maxTrials' = cap
    /\ demo_p' = 0
    /\ call' = [op |-> "runFullDemo", arg |-> cap, chose |-> FALSE,
                key |-> "", ret |-> FALSE,
                train |-> NoTrain,
                press |-> NoPress]
    /\ generated' = NoTrial
    /\ UNCHANGED <<runner, current_puzzle, demo_complete, showIntro,
                   showPuzzleIntro, seqVars, history>>
    /\ last_trials' = 0
    /\ demo_ret' = "none"
    /\ UNCHANGED ioRest
    /\ fresh' = TRUE

\* One iteration of runPuzzleToCompletion's loop.  When the trial completes
\* the puzzle, or it was the last the cap allows, the function returns
\* (trials = i + 1, or -1): to the caller, or into runFullDemo, which returns
\* false on a negative value, calls nextPuzzle and the next
\* runPuzzleToCompletion while p < NUM_PUZZLES - 1, and after the last puzzle
\* sets demo_complete and returns true.
GameLoopTrial ==
    /\ runner = "game" /\ pc = "rptc" /\ loop_i < maxTrials
    /\ \E ret \in BOOLEAN :
        /\ Game_runTrial(ret)
        /\ LET returns == ret \/ loop_i + 1 >= maxTrials
               trials == IF ret THEN loop_i + 1 ELSE -1
           IN  IF ~returns
               THEN /\ loop_i' = loop_i + 1
                    /\ last_trials' = 0
                    /\ demo_ret' = "none"
                    /\ UNCHANGED <<pc, maxTrials, demo_p, current_puzzle,
                                   demo_complete>>
               ELSE /\ last_trials' = trials
                    /\ IF demo_p = -1 \/ trials < 0
                       THEN /\ pc' = "idle"
                            /\ loop_i' = 0
                            /\ maxTrials' = 0
                            /\ demo_p' = -1
                            /\ demo_ret' = IF demo_p = -1 THEN "none" ELSE "false"
                            /\ UNCHANGED <<current_puzzle, demo_complete>>
                       ELSE IF demo_p < NUM_PUZZLES - 1
                       THEN /\ pc' = "next"
                            /\ demo_ret' = "none"
                            /\ UNCHANGED <<loop_i, maxTrials, demo_p,
                                           current_puzzle, demo_complete>>
                       ELSE /\ pc' = "idle"
                            /\ loop_i' = 0
                            /\ maxTrials' = 0
                            /\ demo_p' = -1
                            /\ demo_complete' = TRUE
                            /\ demo_ret' = "true"
                            /\ UNCHANGED current_puzzle
    /\ UNCHANGED <<runner, showIntro, showPuzzleIntro, history>>
    /\ UNCHANGED ioRest
    /\ fresh' = FALSE

\* runFullDemo between two puzzles: nextPuzzle(), p++, and the next
\* runPuzzleToCompletion up to its loop.
GameFullDemoNext ==
    /\ runner = "game" /\ pc = "next"
    /\ pc' = "rptc"
    /\ LET next == current_puzzle + 1 IN
        /\ demo_complete' = IF next >= NUM_PUZZLES THEN TRUE ELSE demo_complete
        /\ current_puzzle' = IF next >= NUM_PUZZLES THEN current_puzzle ELSE next
    /\ GameState_reset
    /\ demo_p' = demo_p + 1
    /\ loop_i' = 0
    /\ call' = [op |-> "runFullDemo.next", arg |-> maxTrials, chose |-> FALSE,
                key |-> "", ret |-> FALSE,
                train |-> NoTrain,
                press |-> NoPress]
    /\ generated' = NoTrial
    /\ UNCHANGED <<runner, maxTrials, showIntro, showPuzzleIntro, seqVars,
                   history>>
    /\ last_trials' = 0
    /\ demo_ret' = "none"
    /\ UNCHANGED ioRest
    /\ fresh' = TRUE

GameNext ==
    \/ GameStart
    \/ GameRunTrial
    \/ GameResetPuzzle
    \/ GameNextPuzzle
    \/ \E cap \in TrialCaps : GameRunPuzzleToCompletion(cap)
    \/ \E cap \in TrialCaps : GameRunFullDemo(cap)
    \/ GameLoopTrial
    \/ GameFullDemoNext

SpecGame == Init /\ [][GameNext]_vars

----------------------------------------------------------------------------
(* The three programs. *)

Next ==
    \/ InteractiveStart
    \/ \E key \in Keys : InteractiveKey(key)
    \/ \E key \in Keys : InteractiveVictoryKey(key)
    \/ AutorunStart
    \/ AutorunEnterPuzzle
    \/ AutorunTrial
    \/ AutorunAdvance
    \/ GameStart
    \/ GameRunTrial
    \/ GameResetPuzzle
    \/ GameNextPuzzle
    \/ \E cap \in TrialCaps : GameRunPuzzleToCompletion(cap)
    \/ \E cap \in TrialCaps : GameRunFullDemo(cap)
    \/ GameLoopTrial
    \/ GameFullDemoNext

Spec == Init /\ [][Next]_vars

\* The running loops keep running: the auto-run recorder's while loop and
\* runPuzzleToCompletion's for loop execute their next iteration without
\* waiting for anything outside the program.
FairSpec == Spec /\ WF_vars(AutorunTrial) /\ WF_vars(GameLoopTrial)

----------------------------------------------------------------------------
(* Claims about the runners, checked under Spec and FairSpec. *)

\* A run governed by the validator: puzzles 1-3 in the auto-run recorder, in
\* the interactive program, and in Game between the reset that starts
\* runPuzzleToCompletion and the step after it returned.
ValidatorRun ==
    /\ current_puzzle \in {GENERALIZATION, FEATURE_SELECTION, XOR_CONTEXT}
    /\ \/ runner \in {"autorun", "interactive"}
       \/ runner = "game" /\ (pc \in {"rptc", "next"} \/ last_trials # 0)

\* The trial k that starts the run of correct trials the log ends with.
StreakStart == Len(vlog) - Streak(vlog) + 1

\* C4: in a run of puzzles 1-3, when every trial from trial k on is correct
\* the puzzle is declared complete at exactly trial max(5, k+3): not while
\* fewer trials have run, and no trial runs after it; an always-correct
\* agent completes at trial 5.  runPuzzleToCompletion returns that count.
C4_CompleteAtMaxFiveKPlusThree ==
    ValidatorRun =>
        /\ Streak(vlog) >= 1 => Len(vlog) <= Max(5, StreakStart + 3)
        /\ puzzle_complete <=>
              (Streak(vlog) >= 1 /\ Len(vlog) = Max(5, StreakStart + 3))
        /\ (Streak(vlog) >= 1 /\ StreakStart = 1) =>
              (puzzle_complete <=> Len(vlog) = 5)
        /\ (runner = "game" /\ last_trials > 0) =>
              (puzzle_complete /\ last_trials = Len(vlog))
        /\ (runner = "game" /\ puzzle_complete) => last_trials > 0

C4_Witness ==
    /\ runner = "game" /\ current_puzzle = XOR_CONTEXT
    /\ vlog = <<TRUE, FALSE, TRUE, TRUE, TRUE, TRUE>>
    /\ puzzle_complete /\ last_trials = 6 /\ pc = "next"

\* C8: puzzle 5 terminates.  isComplete() is scored_completed >= 20; no
\* runner records a 31st trial; the gauntlet is declared complete exactly
\* when 30 trials (10 warmup, 20 scored) are recorded, whatever the agent
\* chose; and the auto-run loop and runPuzzleToCompletion, once in puzzle 5,
\* leave it.
C8_GauntletTerminates ==
    /\ [](/\ isComplete(gauntlet) <=> gauntlet.scored_completed >= 20
          /\ recorded <= 30
          /\ recorded = gauntlet.warmup_completed + gauntlet.scored_completed
          /\ recorded > 0 => current_puzzle = COMPOSITION
          /\ (current_puzzle = COMPOSITION /\ recorded < 30
                /\ ~(runner = "autorun" /\ pc = "enter")) => ~puzzle_complete
          /\ recorded = 30 =>
                /\ puzzle_complete
                /\ gauntlet.warmup_completed = 10
                /\ gauntlet.scored_completed = 20
          /\ (runner = "game" /\ current_puzzle = COMPOSITION
                /\ last_trials > 0) => last_trials = 30)
    /\ (runner = "autorun" /\ pc = "loop" /\ current_puzzle = COMPOSITION)
          ~> (pc = "returned" /\ recorded = 30)
    /\ (runner = "game" /\ pc = "rptc" /\ current_puzzle = COMPOSITION)
          ~> (pc # "rptc" /\ last_trials \in {-1, 30})

C8_Witness ==
    /\ runner = "autorun" /\ pc = "returned" /\ current_puzzle = COMPOSITION
    /\ recorded = 30 /\ gauntlet.correct = 7 /\ puzzle_complete

\* C10: in every runner of puzzle 4 the step that drives the SequencePuzzle
\* to SUCCESS or FAIL also resets it, so between steps the state is START or
\* PRESSED_A and no pressButton call starts from a terminal state.
C10_ResetInSameStep ==
    /\ seq_puzzle \in {"START", "PRESSED_A"}
    /\ call.press # NoPress =>
          /\ call.press.from \in {"START", "PRESSED_A"}
          /\ call.press.to \in {"SUCCESS", "FAIL"} => seq_puzzle = "START"
          /\ call.press.to \notin {"SUCCESS", "FAIL"} =>
                seq_puzzle = call.press.to

C10_Witness ==
    /\ runner = "interactive" /\ current_puzzle = SEQUENCE
    /\ call.press = [from |-> "PRESSED_A", button |-> 0, to |-> "FAIL",
                     ret |-> FALSE]
    /\ seq_puzzle = "START"

----------------------------------------------------------------------------
(* Claims about the agent's input in puzzle 4, checked under Spec. *)

\* C11: lastActionInput() is 0 in START and 64 in PRESSED_A, and in every
\* puzzle-4 step the value the agent decides on and is trained with is the
\* encoding of the state before the button press (with the button pressed).
C11_InputIsStateBeforePress ==
    /\ lastActionInput("START") = 0
    /\ lastActionInput("PRESSED_A") = 64
    /\ call.press # NoPress =>
          /\ call.train.last = lastActionInput(call.press.from)
          /\ call.train.action = call.press.button
          /\ call.press.from = "START" => call.train.last = 0
          /\ call.press.from = "PRESSED_A" => call.train.last = 64

C11_Witness ==
    /\ runner = "game" /\ current_puzzle = SEQUENCE
    /\ call.press.from = "PRESSED_A" /\ call.press.to = "SUCCESS"
    /\ call.train = Train(64, 1, TRUE)
    /\ seq_puzzle = "START"

----------------------------------------------------------------------------
(* Unit harness of History / TrialHistory (the two classes have the same   *)
(* add and clear).  Callers pass the trial count as trialNum.              *)

HistorySummaries == {"A->B SUCCESS", "B first FAIL"}

UnitHistoryAdd(correct, summary) ==
    /\ Len(added) < MaxAdds
    /\ LET entry == [trialNum |-> Len(added) + 1, correct |-> correct,
                     summary |-> summary]
       IN  /\ history' = History_add(history, entry.trialNum, correct, summary)
           /\ added' = Append(added, entry)
    /\ UNCHANGED <<runner, progVars, validatorVars, gauntletVars, seqVars,
                   call, buffer, writer, stream, frame, draw, genVars>>

UnitHistoryClear ==
    /\ history' = History_clear(history)
    /\ added' = <<>>
    /\ UNCHANGED <<runner, progVars, validatorVars, gauntletVars, seqVars,
                   call, buffer, writer, stream, frame, draw, genVars>>

HistoryNext ==
    \/ \E correct \in BOOLEAN, summary \in HistorySummaries :
          UnitHistoryAdd(correct, summary)
    \/ UnitHistoryClear

SpecHistory == UnitInit /\ [][HistoryNext]_vars

\* The last n elements of a sequence.
LastN(seq, n) == SubSeq(seq, Len(seq) - n + 1, Len(seq))

Min(a, b) == IF a <= b THEN a ELSE b

\* C12: after any sequence of add and clear calls, entries() holds exactly
\* the last min(n, 4) entries added since the last clear, in insertion
\* order; so its size is at most 4, and six adds leave the last four.
C12_LastFourInOrder ==
    /\ history = LastN(added, Min(Len(added), 4))
    /\ Len(history) <= 4
    /\ Len(added) = 6 =>
          history = <<added[3], added[4], added[5], added[6]>>

C12_Witness ==
    /\ Len(added) = 6
    /\ Len(history) = 4
    /\ history[1].trialNum = 3 /\ history[4].trialNum = 6
    /\ history[1].summary # history[2].summary

----------------------------------------------------------------------------
(* Claims about the start of a puzzle run, checked under Spec. *)

\* C13 as stated: when the first trial of a puzzle is generated, in every
\* runner, the validator counters and the gauntlet counters are all zero and
\* the history is empty.
C13_Original ==
    fresh =>
        /\ validator = LearningValidator_new
        /\ gauntlet = GauntletState_new
        /\ history = <<>>

\* C13 amended: when the first trial of a puzzle is generated, in every
\* runner, the gauntlet counters are zero, the history is empty and the
\* validator counters are zero, except that in the recorder's puzzle 5 the
\* validator (which runPuzzle5 neither resets nor reads) still holds the
\* counts of puzzle 4.
C13_FreshPuzzleState ==
    fresh =>
        /\ gauntlet = GauntletState_new
        /\ recorded = 0
        /\ history = <<>>
        /\ ~(runner = "autorun" /\ current_puzzle = COMPOSITION) =>
              (validator = LearningValidator_new /\ vlog = <<>>)
        /\ (runner = "autorun" /\ current_puzzle = COMPOSITION) =>
              (hasLearned(validator) /\ validator.total_trials = Len(vlog))

C13_Witness ==
    /\ fresh /\ runner = "autorun" /\ pc = "loop"
    /\ current_puzzle = COMPOSITION
    /\ validator.total_trials = 5 /\ validator.successes = 5
    /\ gauntlet = GauntletState_new /\ history = <<>>

----------------------------------------------------------------------------
(* Unit harness of TextBuffer: clear() and then putString, putChar and     *)
(* drawHLine with coordinates and lengths inside and outside the grid.     *)
(* The cells are indeterminate until clear() has run, so the harness draws *)
(* on a cleared buffer, as every caller in the repository does.            *)

Digits == <<48, 49, 50, 51, 52, 53, 54, 55, 56, 57>>

DrawTexts == {Digits, <<97, 98>>}

DrawXs == {-3, 75, WIDTH}

DrawYs == {-1, 0, HEIGHT - 1, HEIGHT}

DrawLengths == {-1, 3, 100}

DrawChars == {45}

bufferFrame == <<runner, progVars, validatorVars, gauntletVars, seqVars,
                 history, call, writer, added, stream, genVars>>

UnitBufferClear ==
    /\ runner = "unit"
    /\ buffer' = TextBuffer_clear(buffer)
    /\ draw' = [NoDraw EXCEPT !.n = draw.n, !.op = "clear"]
    /\ frame' = NoFrame
    /\ UNCHANGED bufferFrame

UnitPutString(x, y, str) ==
    /\ runner = "unit"
    /\ buffer # <<>>
    /\ draw.n < MaxDraws
    /\ buffer' = TextBuffer_putString(buffer, x, y, str)
    /\ draw' = [NoDraw EXCEPT !.n = draw.n + 1, !.op = "putString",
                              !.x = x, !.y = y, !.str = str]
    /\ frame' = NoFrame
    /\ UNCHANGED bufferFrame

UnitPutChar(x, y, c) ==
    /\ runner = "unit"
    /\ buffer # <<>>
    /\ draw.n < MaxDraws
    /\ buffer' = TextBuffer_putChar(buffer, x, y, c)
    /\ draw' = [NoDraw EXCEPT !.n = draw.n + 1, !.op = "putChar",
                              !.x = x, !.y = y, !.c = c]
    /\ frame' = NoFrame
    /\ UNCHANGED bufferFrame

UnitDrawHLine(x, y, length, c) ==
    /\ runner = "unit"
    /\ buffer # <<>>
    /\ draw.n < MaxDraws
    /\ buffer' = TextBuffer_drawHLine(buffer, x, y, length, c)
    /\ draw' = [NoDraw EXCEPT !.n = draw.n + 1, !.op = "drawHLine",
                              !.x = x, !.y = y, !.length = length, !.c = c]
    /\ frame' = NoFrame
    /\ UNCHANGED bufferFrame

BufferNext ==
    \/ UnitBufferClear
    \/ \E x \in DrawXs, y \in DrawYs, str \in DrawTexts : UnitPutString(x, y, str)
    \/ \E x \in DrawXs, y \in DrawYs, c \in DrawChars : UnitPutChar(x, y, c)
    \/ \E x \in DrawXs, y \in DrawYs, length \in DrawLengths, c \in DrawChars :
           UnitDrawHLine(x, y, length, c)

SpecBuffer == UnitInit /\ [][BufferNext]_vars

\* The cells of the grid, terminator column included, as (row, column)
\* pairs counted from 0.
Cells == (0..(HEIGHT - 1)) \X (0..WIDTH)

\* C14: putString(x, y, text) on a cleared buffer writes text[i] to column
\* x + i of row y for exactly the i in 0..len-1 with 0 <= x + i < WIDTH when
\* 0 <= y < HEIGHT, writes nothing when y is out of range, and leaves every
\* other cell as it was; putString(75, 0, "0123456789") changes columns
\* 75..79 of row 0 and nothing else.
C14_PutStringClamps ==
    [][(draw'.n = draw.n + 1 /\ draw'.op = "putString") =>
        LET x == draw'.x
            y == draw'.y
            text == draw'.str
            written == {rc \in Cells :
                           /\ rc[1] = y
                           /\ rc[2] - x \in 0..(Len(text) - 1)
                           /\ rc[2] < WIDTH}
        IN  /\ \A rc \in Cells :
                   buffer'[rc[1] + 1][rc[2] + 1] =
                       IF rc \in written THEN text[rc[2] - x + 1]
                       ELSE buffer[rc[1] + 1][rc[2] + 1]
            /\ (y < 0 \/ y >= HEIGHT) => buffer' = buffer
            /\ (x = 75 /\ y = 0 /\ text = Digits) =>
                   /\ written = {0} \X (75..79)
                   /\ \A i \in 0..4 : buffer'[1][75 + i + 1] = 48 + i
    ]_vars

\* putString(75, 0, "0123456789") has just run on a row that held a line of
\* dashes: columns 75..79 hold "01234", column 74 keeps its dash and the
\* terminator is in place.
C14_Witness ==
    /\ draw.op = "putString" /\ draw.x = 75 /\ draw.y = 0 /\ draw.str = Digits
    /\ buffer # <<>>
    /\ buffer[1][75] = 45
    /\ SubSeq(buffer[1], 76, 80) = <<48, 49, 50, 51, 52>>
    /\ buffer[1][WIDTH + 1] = NUL

\* C15: after clear() and any putString, putChar and drawHLine calls, with
\* coordinates and lengths inside or outside the grid, buffer_ still has
\* HEIGHT rows, every row still reads as exactly WIDTH characters, and its
\* terminator, the cell just past column WIDTH - 1, was never written.
C15_RowsKeepWidth ==
    buffer # <<>> =>
        /\ DOMAIN buffer = 1..HEIGHT
        /\ \A y \in 0..(HEIGHT - 1) :
               /\ DOMAIN buffer[y + 1] = 1..(WIDTH + 1)
               /\ buffer[y + 1][WIDTH + 1] = NUL
               /\ Len(TextBuffer_line(buffer, y)) = WIDTH

\* drawHLine(75, 23, 100) has just run after another drawing call: the line
\* stops at column 79 of the last row.
C15_Witness ==
    /\ draw.n = 2 /\ draw.op = "drawHLine"
    /\ draw.x = 75 /\ draw.y = HEIGHT - 1 /\ draw.length = 100
    /\ SubSeq(buffer[HEIGHT], 75, WIDTH + 1) = <<32, 45, 45, 45, 45, 45, 0>>
    /\ Len(TextBuffer_line(buffer, HEIGHT - 1)) = WIDTH

----------------------------------------------------------------------------
(* Unit harness of FrameWriter: one writer, as in the recorder's main, and *)
(* one buffer that is cleared and drawn on between the frames.  As in the  *)
(* recorder the header is written first, and the grid is output after      *)
(* clear() only: before it the cells are indeterminate.  The default       *)
(* pauseAfter, 0.0, is given to the custom frames.                         *)

\* A text with bytes of every kind escapeForJson tells apart: 'A', '"',
\* '\', tab, newline, carriage return, 0x01, '~', DEL and 0xE2.
GridText == <<65, 34, 92, 9, 10, 13, 1, 126, 127, 226>>

\* pauseAfter of a grid frame: two of the timing constants.
Pauses == {SEQUENCE_STEP, TRIAL_CORRECT}

\* Custom contents given to outputRawFrame.
RawContents ==
    {<<34, 92, 10, 13, 9, 1, 31, 32, 126>>, <<65, 127, 226, 66>>}

\* Wall-clock seconds returned by std::time.
Nows == {1700000000}

IsPrefix(p, str) == Len(p) <= Len(str) /\ SubSeq(str, 1, Len(p)) = p

\* Number of event records printed so far.
frameCount == Cardinality({k \in 1..Len(stream) : stream[k].kind # "header"})

writerFrame == <<runner, progVars, validatorVars, gauntletVars, seqVars,
                 history, call, buffer, added, draw, genVars>>

UnitWriteHeader(now) ==
    /\ runner = "unit"
    /\ stream = <<>>
    /\ stream' = <<[kind |-> "header", time |-> now, pause |-> 0, init |-> FALSE]>>
    /\ frame' = NoFrame
    /\ UNCHANGED <<writer, writerFrame>>

UnitOutputFrame(pauseAfter, charSigned) ==
    /\ runner = "unit"
    /\ stream # <<>>
    /\ buffer # <<>>
    /\ frameCount < MaxFrames
    /\ \E built \in {buildFrameContent(writer, buffer)} :
       \E out \in {outputRawFrame(built.writer, built.result, pauseAfter, charSigned)} :
           /\ writer' = out.writer
           /\ frame' = [NoFrame EXCEPT !.op = "outputFrame",
                                        !.content = built.result,
                                        !.escaped = out.record.escaped,
                                        !.time = out.record.time,
                                        !.pause = pauseAfter]
           /\ stream' = Append(stream,
                               [kind |-> "frame", time |-> out.record.time,
                                pause |-> pauseAfter,
                                init |-> IsPrefix(INIT, built.result)])
    /\ UNCHANGED writerFrame

UnitOutputRawFrame(content, pauseAfter, charSigned) ==
    /\ runner = "unit"
    /\ stream # <<>>
    /\ frameCount < MaxFrames
    /\ \E out \in {outputRawFrame(writer, content, pauseAfter, charSigned)} :
           /\ writer' = out.writer
           /\ frame' = [NoFrame EXCEPT !.op = "outputRawFrame",
                                        !.content = content,
                                        !.escaped = out.record.escaped,
                                        !.time = out.record.time,
                                        !.pause = pauseAfter]
           /\ stream' = Append(stream,
                               [kind |-> "raw", time |-> out.record.time,
                                pause |-> pauseAfter,
                                init |-> IsPrefix(INIT, content)])
    /\ UNCHANGED writerFrame

WriterNext ==
    \/ \E now \in Nows : UnitWriteHeader(now)
    \/ UnitBufferClear
    \/ UnitPutString(0, 0, GridText)
    \/ UnitPutChar(WIDTH - 1, HEIGHT - 1, 34)
    \/ \E pauseAfter \in Pauses, charSigned \in BOOLEAN :
           UnitOutputFrame(pauseAfter, charSigned)
    \/ \E content \in RawContents, charSigned \in BOOLEAN :
           UnitOutputRawFrame(content, 0, charSigned)

SpecWriter == UnitInit /\ [][WriterNext]_vars

\* The positions in the stream of the records printed by outputFrame.
GridFrames == {k \in 1..Len(stream) : stream[k].kind = "frame"}

\* C16: over any sequence of outputFrame calls on one writer, the content
\* of the first call starts with INIT and the content of every later call
\* starts with CLEAR and not with INIT: exactly one grid frame carries INIT,
\* the first one.
C16_InitOnFirstFrameOnly ==
    /\ \A k \in GridFrames :
           stream[k].init <=> (\A j \in GridFrames : k <= j)
    /\ GridFrames # {} => Cardinality({k \in GridFrames : stream[k].init}) = 1
    /\ frame.op = "outputFrame" =>
           IF Cardinality(GridFrames) = 1
           THEN IsPrefix(INIT, frame.content)
           ELSE IsPrefix(CLEAR, frame.content) /\ ~IsPrefix(INIT, frame.content)

\* A custom frame, then two grid frames: the second grid frame has just
\* been output and starts with CLEAR, the first one carried INIT.
C16_Witness ==
    /\ Len(stream) = 4
    /\ stream[2].kind = "raw"
    /\ stream[3].kind = "frame" /\ stream[3].init
    /\ stream[4].kind = "frame" /\ ~stream[4].init
    /\ frame.op = "outputFrame"
    /\ IsPrefix(CLEAR, frame.content) /\ ~IsPrefix(INIT, frame.content)
    /\ ~writer.firstFrame_

\* The positions in the stream of the event records (all but the header).
Events == {k \in 1..Len(stream) : stream[k].kind # "header"}

\* Sum of the pauses of the event records before position k.
RECURSIVE PausesBefore(_)
PausesBefore(k) ==
    IF k <= 1 THEN 0
    ELSE PausesBefore(k - 1)
             + (IF k - 1 \in Events THEN stream[k - 1].pause ELSE 0)

\* C17: the clock starts at 0; every record carries the clock as it was
\* before the call and the clock then advances by pauseAfter, so that the
\* timestamp of the k-th record is the sum of the pauses of the records
\* before it, and the timestamps of the stream never decrease.
C17_TimestampIsSumOfEarlierPauses ==
    /\ Events = {} => writer.time_ = 0
    /\ \A k \in Events : stream[k].time = PausesBefore(k)
    /\ \A j, k \in Events : j <= k => stream[j].time <= stream[k].time
    /\ writer.time_ = PausesBefore(Len(stream) + 1)
    /\ frame.op # "none" =>
           /\ frame.time = stream[Len(stream)].time
           /\ writer.time_ = frame.time + frame.pause

\* Three records after the header, with pauses 1.5 s, 0.8 s and 1.5 s: they
\* carry 0.000, 1.500 and 2.300, and the clock stands at 3.800.
C17_Witness ==
    /\ Len(stream) = 4
    /\ stream[1].kind = "header"
    /\ stream[2].time = 0 /\ stream[2].pause = TRIAL_CORRECT
    /\ stream[3].time = 1500 /\ stream[3].pause = SEQUENCE_STEP
    /\ stream[4].time = 2300 /\ stream[4].pause = TRIAL_CORRECT
    /\ frame.op = "outputFrame" /\ frame.time = 2300
    /\ writer.time_ = 3800

\* The escape the claim gives for one byte below 0x7F.
C18_Map(byte) ==
    CASE byte = 34 -> <<92, 34>>
      [] byte = 92 -> <<92, 92>>
      [] byte = 10 -> <<92, 114, 92, 110>>
      [] byte = 13 -> <<>>
      [] byte = 9  -> <<92, 116>>
      [] byte < 32 /\ byte \notin {9, 10, 13} ->
           <<92, 117, 48, 48, HexDigit(byte \div 16), HexDigit(byte % 16)>>
      [] byte >= 32 /\ byte <= 126 /\ byte \notin {34, 92} -> <<byte>>

\* One byte's part of the output.  The bytes from 0x7F on, of which the
\* claim says nothing, are dropped, or escaped like a control byte where
\* char is signed and the byte is 0x80 or more.
C18_Piece(byte, charSigned) ==
    IF byte < 127 THEN C18_Map(byte)
    ELSE IF byte >= 128 /\ charSigned
         THEN <<92, 117, 48, 48, HexDigit(byte \div 16), HexDigit(byte % 16)>>
         ELSE <<>>

\* The pieces of content[lo..hi] one after the other.
RECURSIVE C18_Concat(_, _, _, _)
C18_Concat(content, lo, hi, charSigned) ==
    IF lo > hi THEN <<>>
    ELSE IF lo = hi THEN C18_Piece(content[lo], charSigned)
    ELSE C18_Concat(content, lo, (lo + hi) \div 2, charSigned)
             \o C18_Concat(content, (lo + hi) \div 2 + 1, hi, charSigned)

\* C18: the escaped text of a record is the concatenation, in order, of
\* one piece per byte of the content: '"' gives \", '\' gives \\, newline
\* gives the four characters \r\n, carriage return gives nothing, tab gives
\* \t, any other byte below 0x20 gives \u00XX and a printable byte
\* 0x20-0x7E gives itself.
C18_EscapePerByte ==
    frame.op # "none" =>
        \E charSigned \in BOOLEAN :
            frame.escaped = C18_Concat(frame.content, 1, Len(frame.content), charSigned)

\* The custom content '"', '\', newline, carriage return, tab, 0x01, 0x1F,
\* ' ', '~' has just been printed as \" \\ \r\n (nothing) \t \u0001 \u001f
\* and the two printable bytes.
C18_Witness ==
    /\ frame.op = "outputRawFrame"
    /\ frame.content = <<34, 92, 10, 13, 9, 1, 31, 32, 126>>
    /\ frame.escaped = <<92, 34, 92, 92, 92, 114, 92, 110, 92, 116,
                         92, 117, 48, 48, 48, 49, 92, 117, 48, 48, 49, 102,
                         32, 126>>

\* Unescaping of a JSON string body.  A backslash starts an escape when the
\* run of backslashes that ends with it has odd length.
RECURSIVE BackslashRun(_, _)
BackslashRun(s, i) ==
    IF i >= 1 /\ s[i] = 92 THEN 1 + BackslashRun(s, i - 1) ELSE 0

IsEscapeStart(s, i) == i >= 1 /\ s[i] = 92 /\ BackslashRun(s, i) % 2 = 1

\* Position i belongs to an escape that started before it: the character
\* after the backslash, or one of the four hex digits of a \u escape.
InsideEscape(s, i) ==
    \/ IsEscapeStart(s, i - 1)
    \/ \E k \in 2..5 : IsEscapeStart(s, i - k) /\ s[i - k + 1] = 117

HexValue(c) == IF c <= 57 THEN c - 48 ELSE IF c >= 97 THEN c - 87 ELSE c - 55

\* What position i of the escaped text contributes to the unescaped text.
UnescapeAt(s, i) ==
    IF IsEscapeStart(s, i)
    THEN IF i + 1 > Len(s) THEN <<>>
         ELSE LET e == s[i + 1] IN
              IF e = 110 THEN <<10>>
              ELSE IF e = 114 THEN <<13>>
              ELSE IF e = 116 THEN <<9>>
              ELSE IF e = 98 THEN <<8>>
              ELSE IF e = 102 THEN <<12>>
              ELSE IF e = 117 /\ i + 5 <= Len(s)
                   THEN <<HexValue(s[i + 2]) * 4096 + HexValue(s[i + 3]) * 256
                            + HexValue(s[i + 4]) * 16 + HexValue(s[i + 5])>>
                   ELSE <<e>>
    ELSE IF InsideEscape(s, i) THEN <<>> ELSE <<s[i]>>

RECURSIVE UnescapeRange(_, _, _)
UnescapeRange(s, lo, hi) ==
    IF lo > hi THEN <<>>
    ELSE IF lo = hi THEN UnescapeAt(s, lo)
    ELSE UnescapeRange(s, lo, (lo + hi) \div 2)
             \o UnescapeRange(s, (lo + hi) \div 2 + 1, hi)

Unescape(s) == UnescapeRange(s, 1, Len(s))

\* The rows of the grid joined by newlines.
RECURSIVE JoinRows(_, _)
JoinRows(b, y) ==
    IF y = HEIGHT - 1 THEN TextBuffer_line(b, y)
    ELSE TextBuffer_line(b, y) \o <<10>> \o JoinRows(b, y + 1)

\* What comes back of one byte of a row: a carriage return and DEL are
\* lost, a newline comes back as carriage return and newline, a byte of
\* 0x80 or more is lost or comes back, by the signedness of char.
C19_Back(byte, charSigned) ==
    IF byte = 13 \/ byte = 127 THEN <<>>
    ELSE IF byte = 10 THEN <<13, 10>>
    ELSE IF byte >= 128 /\ ~charSigned THEN <<>>
    ELSE <<byte>>

RECURSIVE C19_RowBack(_, _, _, _)
C19_RowBack(row, lo, hi, charSigned) ==
    IF lo > hi THEN <<>>
    ELSE IF lo = hi THEN C19_Back(row[lo], charSigned)
    ELSE C19_RowBack(row, lo, (lo + hi) \div 2, charSigned)
             \o C19_RowBack(row, (lo + hi) \div 2 + 1, hi, charSigned)

\* Every row from y on, each followed by carriage return and newline.
RECURSIVE C19_RowsBack(_, _, _)
C19_RowsBack(b, y, charSigned) ==
    IF y >= HEIGHT THEN <<>>
    ELSE C19_RowBack(TextBuffer_line(b, y), 1, Len(TextBuffer_line(b, y)), charSigned)
             \o <<13, 10>> \o C19_RowsBack(b, y + 1, charSigned)

\* C19 as stated: unescaping the escaped text of a frame printed by
\* outputFrame gives the rows of the grid joined by newlines.
C19_Original ==
    frame.op = "outputFrame" => Unescape(frame.escaped) = JoinRows(buffer, 0)

\* C19, round trip of a frame printed by outputFrame: unescaping its
\* escaped text gives the control sequence of the frame (INIT for the first
\* grid frame of the writer, CLEAR for a later one) followed by every row
\* of the grid, each row followed by carriage return and newline; in a row
\* a carriage return and DEL are lost, a newline comes back as carriage
\* return and newline, and a byte of 0x80 or more is lost or kept.
C19_RoundTrip ==
    frame.op = "outputFrame" =>
        \E charSigned \in BOOLEAN :
            Unescape(frame.escaped) =
                (IF Cardinality(GridFrames) = 1 THEN INIT ELSE CLEAR)
                    \o C19_RowsBack(buffer, 0, charSigned)

\* The second grid frame of the writer has just been printed from a grid
\* whose first row starts with 'A', '"', '\', tab, newline, carriage
\* return, 0x01, '~': unescaped it starts with CLEAR and these bytes, the
\* newline preceded by a carriage return and the grid's own one lost.
C19_Witness ==
    /\ frame.op = "outputFrame"
    /\ Cardinality(GridFrames) = 2
    /\ SubSeq(buffer[1], 1, 8) = <<65, 34, 92, 9, 10, 13, 1, 126>>
    /\ buffer[HEIGHT][WIDTH] = 34
    /\ IsPrefix(CLEAR \o <<65, 34, 92, 9, 13, 10, 1, 126>>, Unescape(frame.escaped))

----------------------------------------------------------------------------
(* Unit harness of calculateTrialTiming: trial frames as the recorder's    *)
(* loops print them, the pause computed from three flags, on one writer.   *)

UnitTrialFrame(complete, firstTrial, correct) ==
    /\ runner = "unit"
    /\ stream # <<>>
    /\ buffer # <<>>
    /\ frameCount < MaxFrames
    /\ \E pause \in {calculateTrialTiming(complete, firstTrial, correct)} :
       \E built \in {buildFrameContent(writer, buffer)} :
       \E out \in {outputRawFrame(built.writer, built.result, pause, FALSE)} :
           /\ writer' = out.writer
           /\ frame' = [NoFrame EXCEPT !.op = "trialFrame",
                                        !.content = built.result,
                                        !.escaped = out.record.escaped,
                                        !.time = out.record.time,
                                        !.pause = pause,
                                        !.timing = [isComplete |-> complete,
                                                    isFirstTrial |-> firstTrial,
                                                    isCorrect |-> correct]]
           /\ stream' = Append(stream,
                               [kind |-> "frame", time |-> out.record.time,
                                pause |-> pause,
                                init |-> IsPrefix(INIT, built.result)])
    /\ UNCHANGED writerFrame

TimingNext ==
    \/ \E now \in Nows : UnitWriteHeader(now)
    \/ UnitBufferClear
    \/ \E complete \in BOOLEAN, firstTrial \in BOOLEAN, correct \in BOOLEAN :
           UnitTrialFrame(complete, firstTrial, correct)

SpecTiming == UnitInit /\ [][TimingNext]_vars

\* C20: calculateTrialTiming depends on its three flags only, completion
\* before first trial before correctness: COMPLETION when isComplete,
\* whatever the other two; else FIRST_TRIAL when isFirstTrial; else
\* TRIAL_CORRECT when isCorrect and TRIAL_WRONG when not.  The eight cases:
C20_TimingTable ==
    frame.op = "trialFrame" =>
        LET t == <<frame.timing.isComplete, frame.timing.isFirstTrial,
                   frame.timing.isCorrect>>
        IN  /\ t = <<TRUE, TRUE, TRUE>> => frame.pause = COMPLETION
            /\ t = <<TRUE, TRUE, FALSE>> => frame.pause = COMPLETION
            /\ t = <<TRUE, FALSE, TRUE>> => frame.pause = COMPLETION
            /\ t = <<TRUE, FALSE, FALSE>> => frame.pause = COMPLETION
            /\ t = <<FALSE, TRUE, TRUE>> => frame.pause = FIRST_TRIAL
            /\ t = <<FALSE, TRUE, FALSE>> => frame.pause = FIRST_TRIAL
            /\ t = <<FALSE, FALSE, TRUE>> => frame.pause = TRIAL_CORRECT
            /\ t = <<FALSE, FALSE, FALSE>> => frame.pause = TRIAL_WRONG
            /\ writer.time_ = frame.time + frame.pause

\* A frame of a trial that is complete, first and wrong, after a frame that
\* paused 1.5 s: its pause is COMPLETION.
C20_Witness ==
    /\ frame.op = "trialFrame"
    /\ frame.timing = [isComplete |-> TRUE, isFirstTrial |-> TRUE, isCorrect |-> FALSE]
    /\ frame.pause = 4000
    /\ frame.time = 1500
    /\ writer.time_ = 5500

----------------------------------------------------------------------------
(* Unit harness of RNG: two instances constructed independently with one   *)
(* seed, and next() called on either of them in any order.                 *)

\* Seeds: 0, 1, 42 (recorder), 999, 12345 (the default), 54321, 0x80000000
\* and 0xFFFFFFFF.
Seeds ==
    {Word(0), Word(1), Word(42), Word(999), Word(12345), Word(54321),
     SubSeq(Word(0), 1, BITS - 1) \o <<1>>,
     SubSeq(Word(2147483647), 1, BITS - 1) \o <<1>>}

rngFrame == <<runner, progVars, validatorVars, gauntletVars, seqVars,
              history, call, buffer, writer, added, stream, frame, draw>>

UnitRngConstruct(seed) ==
    /\ runner = "unit"
    /\ rng = <<>>
    /\ rng' = <<RNG_new(seed), RNG_new(seed)>>
    /\ rolled' = <<<<>>, <<>>>>
    /\ UNCHANGED <<generated, rngFrame>>

UnitRngNext(k) ==
    /\ runner = "unit"
    /\ k \in 1..Len(rng)
    /\ Len(rolled[k]) < MaxCalls
    /\ rng' = [rng EXCEPT ![k] = RNG_next(@)]
    /\ rolled' = [rolled EXCEPT ![k] = Append(@, RNG_next(rng[k]))]
    /\ UNCHANGED <<generated, rngFrame>>

RngNext ==
    \/ \E seed \in Seeds : UnitRngConstruct(seed)
    \/ \E k \in 1..2 : UnitRngNext(k)

SpecRng == UnitInit /\ [][RngNext]_vars

\* The recurrence on the two 16-bit halves of the word, in integers.
C21_Half(w, from) ==
    LET bit(i) == w[from + i] * 2 ^ (i - 1)
    IN  bit(1) + bit(2) + bit(3) + bit(4) + bit(5) + bit(6) + bit(7) + bit(8)
        + bit(9) + bit(10) + bit(11) + bit(12) + bit(13) + bit(14) + bit(15)
        + bit(16)

RECURSIVE C21_Xor(_, _)
C21_Xor(a, b) ==
    IF a = 0 THEN b
    ELSE IF b = 0 THEN a
    ELSE ((a + b) % 2) + 2 * C21_Xor(a \div 2, b \div 2)

\* <<hi, lo>> after s ^= s << 13; s ^= s >> 17; s ^= s << 5 modulo 2^32.
C21_Xorshift(hi, lo) ==
    LET hi1 == C21_Xor(hi, ((hi % 8) * 8192 + lo \div 8))
        lo1 == C21_Xor(lo, (lo % 8) * 8192)
        hi2 == hi1
        lo2 == C21_Xor(lo1, hi1 \div 2)
        hi3 == C21_Xor(hi2, ((hi2 % 2048) * 32 + lo2 \div 2048))
        lo3 == C21_Xor(lo2, (lo2 % 2048) * 32)
    IN  <<hi3, lo3>>

C21_Halves(w) == <<C21_Half(w, 16), C21_Half(w, 0)>>

\* C21: next() applies s ^= s << 13; s ^= s >> 17; s ^= s << 5 on a 32-bit
\* word and returns the new state, so two RNG instances constructed with
\* the same seed return the same value on each of their calls.
C21_SameSeedSameSequence ==
    rng # <<>> =>
        /\ \A n \in 1..Len(rolled[1]) :
               n <= Len(rolled[2]) => rolled[1][n] = rolled[2][n]
        /\ \A k \in 1..2 :
               /\ Len(rolled[k]) > 0 =>
                      /\ rng[k] = rolled[k][Len(rolled[k])]
                      /\ \E seed \in Seeds :
                             C21_Halves(rolled[k][1]) =
                                 C21_Xorshift(C21_Halves(seed)[1], C21_Halves(seed)[2])
               /\ \A n \in 2..Len(rolled[k]) :
                      C21_Halves(rolled[k][n]) =
                          C21_Xorshift(C21_Halves(rolled[k][n - 1])[1],
                                       C21_Halves(rolled[k][n - 1])[2])

\* Both instances were seeded with 42 and called four times each: they
\* returned 11355432, 2836018348, 476557059 and 3648046016 (55664 * 65536 + 50112).
C21_Witness ==
    /\ Len(rng) = 2
    /\ Len(rolled[1]) = 4 /\ Len(rolled[2]) = 4
    /\ rolled[1][1] = Word(11355432)
    /\ rolled[2][3] = Word(476557059)
    /\ C21_Halves(rolled[2][4]) = <<55664, 50112>>
    /\ rolled[1][4] = rolled[2][4]

\* C22 as stated: an RNG constructed with seed 0 runs the recurrence on a
\* non-zero state and returns a sequence that is not constant.
C22_Original ==
    rng # <<>> =>
        \A k \in 1..Len(rng) :
            /\ rng[k] # Word(0)
            /\ Len(rolled[k]) >= 2 => \E n \in 2..Len(rolled[k]) : rolled[k][n] # rolled[k][1]

\* C22, what the constructor does: the seed becomes the state as it is, and
\* the state 0 is a fixed point of next(), so an instance seeded with 0
\* returns 0 on every call; the state of an instance seeded with another
\* value never becomes 0.
C22_SeedZeroStaysZero ==
    rng # <<>> =>
        \A k \in 1..Len(rng) :
            \/ rng[k] = Word(0) /\ \A n \in 1..Len(rolled[k]) : rolled[k][n] = Word(0)
            \/ rng[k] # Word(0) /\ \A n \in 1..Len(rolled[k]) : rolled[k][n] # Word(0)

\* An instance seeded with 0 has been called four times and returned 0
\* four times.
C22_Witness ==
    /\ Len(rng) = 2
    /\ Len(rolled[1]) = 4
    /\ \A n \in 1..4 : rolled[1][n] = Word(0)
    /\ rng[1] = Word(0)

----------------------------------------------------------------------------
(* Unit harness of the trial generators: one RNG, constructed with any of  *)
(* the seeds, and generate calls of the four trial structs on it in any    *)
(* order.  A call whose re-roll loop has not ended after MaxRerolls        *)
(* iterations has not returned and gives no trial.                         *)

\* The step that lets a generate call return g.
UnitGenerateReturn(g) ==
    /\ runner = "unit"
    /\ rng # <<>>
    /\ generated.n < MaxGenerated
    /\ g.returned
    /\ rng' = [rng EXCEPT ![1] = g.rng]
    /\ generated' = [g.trial EXCEPT !.n = generated.n + 1]
    /\ UNCHANGED <<rolled, rngFrame>>

UnitMushroomGenerate(adversarial) ==
    /\ rng # <<>>
    /\ \E g \in {MushroomTrial_generateWith(rng[1], adversarial)} : UnitGenerateReturn(g)

UnitShapeGenerate(adversarial) ==
    /\ rng # <<>>
    /\ \E g \in {ShapeTrial_generateWith(rng[1], adversarial)} : UnitGenerateReturn(g)

UnitXORGenerate ==
    /\ rng # <<>>
    /\ \E g \in {XORTrial_generateWith(rng[1])} : UnitGenerateReturn(g)

UnitCompositionGenerate ==
    /\ rng # <<>>
    /\ \E g \in {CompositionTrial_generateWith(rng[1])} : UnitGenerateReturn(g)

GeneratorsNext ==
    \/ \E seed \in Seeds : UnitRngConstruct(seed)
    \/ \E adversarial \in BOOLEAN : UnitMushroomGenerate(adversarial)
    \/ \E adversarial \in BOOLEAN : UnitShapeGenerate(adversarial)
    \/ UnitXORGenerate
    \/ UnitCompositionGenerate

SpecGenerators == UnitInit /\ [][GeneratorsNext]_vars

\* C23: a trial that MushroomTrial::generate returns in non-adversarial
\* mode has sizeA and sizeB in 32..127, at least 20 apart, colorA and
\* colorB in 0..127, and correctIsA exactly when sizeA > sizeB.
C23_MushroomRanges ==
    (generated.kind = "mushroom" /\ ~generated.adversarial) =>
        /\ generated.sizeA \in 32..127
        /\ generated.sizeB \in 32..127
        /\ Abs(generated.sizeA - generated.sizeB) >= 20
        /\ generated.colorA \in 0..127
        /\ generated.colorB \in 0..127
        /\ generated.correctIsA = (generated.sizeA > generated.sizeB)

\* A non-adversarial mushroom trial whose B is the larger one, generated
\* after another trial.
C23_Witness ==
    /\ generated.kind = "mushroom" /\ ~generated.adversarial
    /\ generated.n = 2
    /\ generated.sizeB >= generated.sizeA + 20
    /\ ~generated.correctIsA


\* C24: a trial that ShapeTrial::generate returns, adversarial or not, has
\* options of different rank, and correctIsA exactly when the rank of A is
\* the greater: rank 2 for a non-circle that is blue (color < 26), 1 for a
\* circle (shape > 64), 0 otherwise.
C24_ShapeRanks ==
    generated.kind = "shape" =>
        LET rankOf(color, shape) ==
                IF shape <= 64 /\ color < 26 THEN 2
                ELSE IF shape > 64 THEN 1 ELSE 0
            rankA == rankOf(generated.colorA, generated.shapeA)
            rankB == rankOf(generated.colorB, generated.shapeB)
        IN  /\ rankA # rankB
            /\ generated.correctIsA = (rankA > rankB)

\* A non-adversarial shape trial in which a circle A loses to a blue
\* square B.
C24_Witness ==
    /\ generated.kind = "shape" /\ ~generated.adversarial
    /\ generated.shapeA = 127
    /\ generated.shapeB = 0 /\ generated.colorB < 26
    /\ ~generated.correctIsA

\* The adversarial shape trial: blue square A against a non-blue circle B.
C24_WitnessAdversarial ==
    /\ generated.kind = "shape" /\ generated.adversarial
    /\ generated.shapeA = 0 /\ generated.colorA < 26
    /\ generated.shapeB = 127
    /\ generated.correctIsA

\* C25: a trial that CompositionTrial::generate returns has sizes at least
\* 20 apart, and correctIsA is sizeA > sizeB with the light on and
\* sizeA < sizeB with the light off.
C25_CompositionRule ==
    generated.kind = "composition" =>
        /\ Abs(generated.sizeA - generated.sizeB) >= 20
        /\ generated.correctIsA = (IF generated.lightOn
                                   THEN generated.sizeA > generated.sizeB
                                   ELSE generated.sizeA < generated.sizeB)

\* A composition trial with the light off in which the smaller A is correct.
C25_Witness ==
    /\ generated.kind = "composition"
    /\ ~generated.lightOn
    /\ generated.sizeA < generated.sizeB
    /\ generated.correctIsA


\* C26: in every program, a trial of puzzle 1 or 2 is generated in
\* adversarial mode exactly when the validator has recorded no outcome
\* since its reset, which is when no trial step has run since the puzzle
\* run started: the first trial of a run is adversarial, every later one is
\* not.
C26_FirstTrialAdversarial ==
    [][(runner \in Runners /\ generated'.kind \in {"mushroom", "shape"}) =>
          /\ generated'.adversarial = (vlog = <<>>)
          /\ generated'.adversarial = fresh
          /\ generated'.adversarial = (generated'.n = 1)]_vars

\* The first trial of puzzle 2 after puzzle 1 was left: adversarial again.
C26_Witness ==
    /\ runner \in Runners
    /\ current_puzzle = FEATURE_SELECTION
    /\ generated.kind = "shape" /\ generated.adversarial
    /\ Len(vlog) = 1

\* A third trial of puzzle 1: not adversarial, and B correct.
C26_WitnessLater ==
    /\ runner \in Runners
    /\ generated.kind = "mushroom" /\ ~generated.adversarial
    /\ Len(vlog) = 3
    /\ ~generated.correctIsA


\* The log of a run of puzzle 1 or 2 whose first four trials were all
\* recorded correct.
C27_FourCorrectFromStart ==
    /\ runner \in Runners
    /\ current_puzzle \in {GENERALIZATION, FEATURE_SELECTION}
    /\ Len(vlog) >= 4
    /\ \A i \in 1..4 : vlog[i]

\* C27 as stated: no run of puzzle 1 or 2 has its first four trials all
\* recorded correct.
C27_Original == ~C27_FourCorrectFromStart

\* C27: the adversarial first trial of puzzle 1 or 2 has A as the correct
\* option and is recorded correct exactly when the agent chooses A, so a run
\* can start with four correct trials; such a run has not completed the
\* puzzle, which takes at least five recorded trials.
C27_StreakFromStartNotComplete ==
    [][(runner \in Runners /\ generated'.kind \in {"mushroom", "shape"}) =>
          /\ generated'.adversarial =>
                /\ generated'.correctIsA
                /\ vlog' = <<call'.chose>>
          /\ Len(vlog') < MIN_TRIALS =>
                /\ ~hasLearned(validator')
                /\ ~puzzle_complete']_vars

\* Puzzle 1 after four trials, all recorded correct, and not complete.
C27_Witness ==
    /\ runner \in Runners
    /\ current_puzzle = GENERALIZATION
    /\ generated.kind = "mushroom"
    /\ vlog = <<TRUE, TRUE, TRUE, TRUE>>
    /\ validator.successes = 4
    /\ ~puzzle_complete


\* The ground truth the agent is trained on for a generated trial.
C28_Truth(t) == IF t.kind = "xor" THEN t.isSafe ELSE t.correctIsA

\* The step generated a trial / pressed a button of the sequence puzzle.
C28_Generates == generated'.kind # "none"

C28_Presses == call'.press # NoPress

\* What C28 states of one step.
C28_Step ==
    runner \in Runners =>
          /\ C28_Generates =>
                LET truth == C28_Truth(generated')
                    outcome == (call'.chose = truth)
                IN  /\ call'.train = Train(0, 0, truth)
                    /\ IF generated'.kind = "composition"
                       THEN /\ recorded' = recorded + 1
                            /\ generated'.n = recorded + 1
                            /\ vlog' = vlog
                       ELSE /\ vlog' = Append(vlog, outcome)
                            /\ generated'.n = Len(vlog) + 1
                            /\ recorded' = recorded
                    /\ IF runner = "game" THEN history' = history
                       ELSE /\ history' # <<>>
                            /\ history'[Len(history')].trialNum = generated'.n
                            /\ history'[Len(history')].correct = outcome
          /\ C28_Presses =>
                /\ ~C28_Generates
                /\ call'.train.action = call'.press.button
                /\ recorded' = recorded
                /\ IF call'.press.to \in {"SUCCESS", "FAIL"}
                   THEN vlog' = Append(vlog, call'.press.to = "SUCCESS")
                   ELSE vlog' = vlog
          /\ (~C28_Generates /\ ~C28_Presses) =>
                /\ call'.train = NoTrain
                /\ vlog' \in {vlog, <<>>}
                /\ recorded' \in {recorded, 0}

\* C28: in every program a step that generates trial N also trains the
\* agent once, on that trial, and records its outcome, once, into the
\* validator (the gauntlet in puzzle 5) and into the history where the
\* program keeps one (Game keeps none); trial N is generated when exactly
\* N - 1 outcomes of the run are recorded.  A step of the sequence puzzle
\* trains once on its own press and records at most the outcome its press
\* decided.  No other step trains or records.
C28_TrialsInSequence ==
    [][C28_Step]_vars

\* The recorder after the third trial of puzzle 3: three outcomes in the
\* validator, the newest history entry is trial 3 with the outcome of the
\* agent's prediction, and the agent was trained on that trial's truth.
C28_Witness ==
    /\ runner = "autorun"
    /\ generated.kind = "xor" /\ generated.n = 3
    /\ Len(vlog) = 3
    /\ ~vlog[3] /\ call.chose # generated.isSafe
    /\ call.train.target = generated.isSafe
    /\ history[Len(history)].trialNum = 3
    /\ ~history[Len(history)].correct


\* C29 as stated: the current puzzle changes only from N to N + 1 and only
\* in a state where puzzle N is reported complete.
C29_Original ==
    [][(runner \in Runners /\ current_puzzle' # current_puzzle) =>
          /\ current_puzzle' = current_puzzle + 1
          /\ puzzle_complete]_vars

\* C29: the current puzzle changes only from N to N + 1, in enumeration
\* order.  The interactive program, the recorder and Game::runFullDemo
\* advance only in a state where puzzle N is reported complete; a caller's
\* Game::nextPuzzle() advances whether or not it is.
C29_AdvanceByOne ==
    [][(runner \in Runners /\ current_puzzle' # current_puzzle) =>
          /\ current_puzzle' = current_puzzle + 1
          /\ current_puzzle' \in GENERALIZATION..COMPOSITION
          /\ ~demo_complete'
          /\ (runner = "game" /\ call'.op = "nextPuzzle") \/ puzzle_complete]_vars

\* The interactive program on the intro of puzzle 2, entered by the confirm
\* key from the completed puzzle 1.
C29_Witness ==
    /\ runner = "interactive"
    /\ current_puzzle = FEATURE_SELECTION
    /\ call.op = "key" /\ call.key = "CR"
    /\ showPuzzleIntro
    /\ ~puzzle_complete /\ vlog = <<>>

\* Game on puzzle 5 by nextPuzzle() calls alone: the sequence puzzle was
\* never pressed, no trial was run.
C29_WitnessSkipped ==
    /\ runner = "game"
    /\ current_puzzle = COMPOSITION
    /\ call.op = "nextPuzzle" /\ call.ret
    /\ fresh /\ seq_puzzle = "START" /\ presses = <<>>


\* The interactive loop waits for a key on the screen of a completed puzzle.
C30_CompletedScreen ==
    runner = "interactive" /\ pc = "loop" /\ puzzle_complete

\* What C30 states of one step.
C30_Step ==
    C30_CompletedScreen =>
        /\ ~showIntro /\ ~showPuzzleIntro
        /\ call'.op = "key" /\ call'.train = NoTrain /\ generated' = NoTrial
        /\ IF call'.key \in {"LF", "CR"}
           THEN IF current_puzzle = COMPOSITION
                THEN /\ demo_complete' /\ pc' = "victory"
                     /\ UNCHANGED <<current_puzzle, showPuzzleIntro>>
                ELSE /\ current_puzzle' = current_puzzle + 1
                     /\ showPuzzleIntro' /\ ~puzzle_complete'
                     /\ pc' = "loop" /\ ~demo_complete'
           ELSE /\ pc' = IF call'.key \in {"q", "Q"} THEN "exit" ELSE "loop"
                /\ UNCHANGED <<current_puzzle, puzzle_complete, demo_complete,
                               showIntro, showPuzzleIntro, validator, gauntlet,
                               seq_puzzle, history, vlog, recorded, presses>>

\* C30: on the screen of a completed puzzle, the confirm key (LF or CR)
\* moves to the intro of the next puzzle, or to the victory screen after
\* puzzle 5; every other key runs no trial and leaves the demo state
\* unchanged, the quit keys leaving the loop.
C30_OnlyConfirmAdvances ==
    [][C30_Step]_vars

\* Space was pressed on the completed screen of puzzle 1: still complete
\* after five trials, on the same puzzle.
C30_Witness ==
    /\ C30_CompletedScreen
    /\ call = KeyCall("SPACE")
    /\ current_puzzle = GENERALIZATION
    /\ Len(vlog) = 5 /\ Len(history) = 4

\* The confirm key on the completed screen of puzzle 5: the victory screen.
C30_WitnessVictory ==
    /\ runner = "interactive" /\ pc = "victory"
    /\ call = KeyCall("LF")
    /\ current_puzzle = COMPOSITION /\ demo_complete


\* What C31 states of runPuzzleToCompletion in one step: a return of -1
\* comes with the last of maxTrials trial steps, none of which completed
\* the puzzle, and a positive return with the step that completed it.
C31_CapStep ==
    /\ last_trials' = -1 =>
          /\ loop_i + 1 = maxTrials
          /\ ~call'.ret /\ ~puzzle_complete'
          /\ current_puzzle \in {GENERALIZATION, FEATURE_SELECTION, XOR_CONTEXT}
                => Len(vlog') = maxTrials
          /\ current_puzzle = COMPOSITION => recorded' = maxTrials
    /\ last_trials' > 0 => (call'.ret /\ puzzle_complete' /\ last_trials' = loop_i + 1)

\* C31 as stated: a puzzle that does not complete within maxTrials trial
\* steps makes runPuzzleToCompletion return -1 after exactly maxTrials
\* steps; runFullDemo then returns false, starts no later puzzle and leaves
\* demo_complete false; runFullDemo returns true and sets demo_complete only
\* when all five puzzles completed, its p-th run being that of puzzle p.
C31_Original ==
    [][runner = "game" =>
          /\ C31_CapStep
          /\ (demo_p # -1 /\ last_trials' = -1) => demo_ret' = "false"
          /\ demo_ret' = "false" =>
                (pc' = "idle" /\ current_puzzle' = current_puzzle /\ ~demo_complete')
          /\ demo_ret' = "true" => (~demo_complete /\ demo_complete')
          /\ demo_p' # -1 => demo_p' = current_puzzle']_vars

\* What the code does: the cap is reported by values.  runFullDemo returns
\* false exactly when one of its runPuzzleToCompletion calls returned -1,
\* starting no later puzzle and leaving demo_complete as it was; it returns
\* true, with demo_complete set, exactly when its fifth call returned a
\* positive count.  Its calls run the puzzles from the current one on, the
\* last puzzle again once it is reached.
C31_CapReportedAsValue ==
    [][runner = "game" =>
          /\ C31_CapStep
          /\ demo_ret' = "false" <=> (demo_p # -1 /\ last_trials' = -1)
          /\ demo_ret' = "false" =>
                (pc' = "idle" /\ UNCHANGED <<current_puzzle, demo_complete>>)
          /\ demo_ret' = "true" <=> (demo_p = NUM_PUZZLES - 1 /\ last_trials' > 0)
          /\ demo_ret' = "true" => (demo_complete' /\ current_puzzle' = COMPOSITION)
          /\ (demo_p' # -1 /\ demo_p' > current_puzzle') => current_puzzle' = COMPOSITION]_vars

\* runFullDemo has returned false, its run of the last puzzle stopped by
\* the cap, on a Game whose demo_complete is set.
C31_Witness ==
    /\ runner = "game" /\ pc = "idle"
    /\ demo_ret = "false" /\ last_trials = -1
    /\ current_puzzle = COMPOSITION /\ recorded = SmallCap
    /\ demo_complete

\* runFullDemo has returned false on a Game it was called on first: puzzle
\* 1 stopped by the cap after SmallCap trials.
C31_WitnessFresh ==
    /\ runner = "game" /\ pc = "idle"
    /\ demo_ret = "false" /\ last_trials = -1
    /\ current_puzzle = GENERALIZATION /\ Len(vlog) = SmallCap
    /\ ~demo_complete


\* runPuzzleToCompletion returned a positive value in the last step.
C32_Returned == runner = "game" /\ last_trials > 0

\* The number of outcomes the completion policy of the current puzzle has
\* recorded.
C32_Recorded ==
    IF current_puzzle = COMPOSITION THEN currentTrials(gauntlet)
    ELSE validator.total_trials

\* C32 as stated: the positive value runPuzzleToCompletion returns is the
\* number of outcomes recorded, in each of the five puzzles.
C32_Original == C32_Returned => last_trials = C32_Recorded

\* C32: the positive value runPuzzleToCompletion returns is the number of
\* runTrial steps it took.  In puzzles 1, 2, 3 and 5 every step records one
\* outcome and the value is the number of outcomes recorded; in puzzle 4 a
\* step is one button press, a success takes two, and the value exceeds the
\* number of outcomes recorded (by at least the four successes of the
\* streak, at most twofold).
C32_ReturnsSteps ==
    C32_Returned =>
        /\ puzzle_complete
        /\ validator.total_trials = Len(vlog)
        /\ currentTrials(gauntlet) = recorded
        /\ IF current_puzzle = SEQUENCE
           THEN /\ last_trials >= C32_Recorded + requiredSuccesses
                /\ last_trials <= 2 * C32_Recorded
           ELSE last_trials = C32_Recorded
        /\ last_trials >= MIN_TRIALS

\* Puzzle 4 completed by five successes in a row: ten presses, five
\* outcomes.
C32_Witness ==
    /\ C32_Returned
    /\ current_puzzle = SEQUENCE
    /\ last_trials = 10
    /\ validator.total_trials = 5

\* Puzzle 5 completed: thirty steps, thirty outcomes.
C32_WitnessGauntlet ==
    /\ C32_Returned
    /\ current_puzzle = COMPOSITION
    /\ last_trials = 30 /\ currentTrials(gauntlet) = 30


\* The history after one entry was added to it: the entry is the newest,
\* the oldest is dropped from a full window.
C33_Added(before, after, entry) ==
    after = Append(IF Len(before) < MAX_ENTRIES THEN before ELSE Tail(before),
                   entry)

\* What C33 states of one step of puzzle 4.
C33_Step ==
    (runner \in Runners /\ call'.press # NoPress) =>
        LET pr == call'.press IN
        IF pr.to = "PRESSED_A"
        THEN /\ pr.from = "START" /\ pr.button = 0
             /\ call'.train = Train(0, 0, TRUE)
             /\ UNCHANGED <<validator, vlog, history, puzzle_complete>>
             /\ seq_puzzle' = "PRESSED_A"
        ELSE /\ pr.to \in {"SUCCESS", "FAIL"}
             /\ call'.train.target = (pr.to = "SUCCESS")
             /\ validator'.total_trials = validator.total_trials + 1
             /\ validator'.successes =
                   IF pr.to = "SUCCESS" THEN validator.successes + 1 ELSE 0
             /\ validator'.failures =
                   validator.failures + IF pr.to = "FAIL" THEN 1 ELSE 0
             /\ vlog' = Append(vlog, pr.to = "SUCCESS")
             /\ IF runner = "game" THEN history' = history
                ELSE \E summary \in {"A->B SUCCESS", "B first FAIL", "A->A FAIL"} :
                        C33_Added(history, history',
                                  [trialNum |-> validator'.total_trials,
                                   correct |-> (pr.to = "SUCCESS"),
                                   summary |-> summary])

\* C33: in puzzle 4 the step that presses A from START trains the agent
\* with success = true and records nothing: validator, its log and the
\* history are unchanged.  A step that reaches SUCCESS or FAIL records
\* exactly one outcome and, where the program keeps a history, adds exactly
\* one entry to it.
C33_InProgressNotRecorded ==
    [][C33_Step]_vars

\* The recorder after the press of A that follows two recorded attempts:
\* trained on success, two outcomes and two history entries as before.
C33_Witness ==
    /\ runner = "autorun"
    /\ current_puzzle = SEQUENCE
    /\ call.press.to = "PRESSED_A" /\ call.train = Train(0, 0, TRUE)
    /\ seq_puzzle = "PRESSED_A"
    /\ validator.total_trials = 2 /\ Len(vlog) = 2 /\ Len(history) = 2


\* The ground truth of the trial a step generated, by the kind of the trial.
C34_Truth ==
    IF generated'.kind = "xor" THEN generated'.isSafe ELSE generated'.correctIsA

\* What C34 states of one trial step of puzzles 1, 2, 3 and 5.
C34_Step ==
    (runner \in Runners /\ generated' # NoTrial /\ call'.press = NoPress) =>
        LET outcome == (call'.chose = C34_Truth) IN
        /\ call'.train = Train(0, 0, C34_Truth)
        /\ IF generated'.kind = "composition"
           THEN /\ recorded' = recorded + 1
                /\ currentTrials(gauntlet') = currentTrials(gauntlet) + 1
                /\ gauntlet'.correct - gauntlet.correct \in {0, 1}
                /\ (gauntlet'.correct = gauntlet.correct + 1) =>
                       (outcome /\ gauntlet.warmup_completed = WARMUP_TRIALS)
                /\ (outcome /\ gauntlet.warmup_completed = WARMUP_TRIALS) =>
                       gauntlet'.correct = gauntlet.correct + 1
           ELSE /\ vlog' = Append(vlog, outcome)
                /\ validator'.total_trials = validator.total_trials + 1
                /\ validator'.successes =
                      IF outcome THEN validator.successes + 1 ELSE 0
                /\ validator'.failures =
                      validator.failures + IF outcome THEN 0 ELSE 1
        /\ runner # "game" =>
              /\ history' # <<>>
              /\ history'[Len(history')].correct = outcome
              /\ history'[Len(history')].trialNum = generated'.n

\* C34: in puzzles 1, 2, 3 and 5 the decision of the agent is read before
\* the agent is trained on the trial, and the outcome recorded into the
\* validator or the gauntlet and added to the history is the comparison of
\* that decision with the ground truth of the trial; the training target is
\* the ground truth whatever the decision was.
C34_DecisionBeforeTraining ==
    [][C34_Step]_vars

\* A wrong decision on a trial whose answer the agent is then trained on:
\* the failure is what was recorded and what the history shows.
C34_Witness ==
    /\ runner = "autorun"
    /\ generated.kind = "mushroom" /\ generated.correctIsA
    /\ ~call.chose
    /\ call.train = Train(0, 0, TRUE)
    /\ vlog # <<>> /\ ~vlog[Len(vlog)]
    /\ history # <<>> /\ ~history[Len(history)].correct
    /\ validator.total_trials = 3

\* The same in the gauntlet's scored phase: the wrong decision scored nothing.
C34_WitnessGauntlet ==
    /\ runner = "interactive"
    /\ generated.kind = "composition"
    /\ call.chose # generated.correctIsA
    /\ call.train = Train(0, 0, generated.correctIsA)
    /\ gauntlet.scored_completed = 3 /\ gauntlet.correct = 2
    /\ history # <<>> /\ ~history[Len(history)].correct


\* The generate calls with a re-roll loop, made on the RNG state `state`.
C35_Calls(state) ==
    {MushroomTrial_generateWith(state, FALSE),
     ShapeTrial_generateWith(state, FALSE),
     CompositionTrial_generateWith(state)}

C35_ZeroNeverReturns ==
    (rng # <<>> /\ rng[1] = Word(0)) =>
        /\ ~MushroomTrial_generateWith(rng[1], FALSE).returned
        /\ ~CompositionTrial_generateWith(rng[1]).returned


\* One trial step written once, for all three programs: what the step does
\* to the validator, the gauntlet and the sequence puzzle, what it trains
\* the network with and whether it completes the puzzle, as a function of
\* the objects before the step, the ground truth of the generated trial and
\* the decision of the agent (the button, in puzzle 4).
C36_Effect(puzzle, v, g, s, truth, chose, button) ==
    IF puzzle = SEQUENCE
    THEN LET r == pressButton(s, button)
             done == isSuccess(r.state) \/ isFail(r.state)
             v2 == IF done THEN LearningValidator_recordOutcome(v, isSuccess(r.state))
                   ELSE v
         IN  [validator |-> v2, gauntlet |-> g,
              seq_puzzle |-> IF done THEN SequencePuzzle_reset(r.state) ELSE r.state,
              train |-> Train(lastActionInput(s), button, ~isFail(r.state)),
              complete |-> done /\ hasLearned(v2)]
    ELSE IF puzzle = COMPOSITION
    THEN LET g2 == GauntletState_recordOutcome(g, chose = truth)
         IN  [validator |-> v, gauntlet |-> g2, seq_puzzle |-> s,
              train |-> Train(0, 0, truth),
              complete |-> isComplete(g2)]
    ELSE LET v2 == LearningValidator_recordOutcome(v, chose = truth)
         IN  [validator |-> v2, gauntlet |-> g, seq_puzzle |-> s,
              train |-> Train(0, 0, truth),
              complete |-> hasLearned(v2)]

\* The kind of trial each puzzle generates.
C36_Kind(puzzle) ==
    CASE puzzle = GENERALIZATION -> "mushroom"
      [] puzzle = FEATURE_SELECTION -> "shape"
      [] puzzle = XOR_CONTEXT -> "xor"
      [] puzzle = SEQUENCE -> "none"
      [] puzzle = COMPOSITION -> "composition"

\* Whether the step declared the puzzle complete: the value runTrial
\* returned in Game, the flag that ends the loop in the other two.
C36_Declared ==
    IF runner = "game" THEN call'.ret ELSE puzzle_complete'

\* What C36 states of one trial step of any of the three programs.
C36_Step ==
    (runner \in Runners /\ call'.train # NoTrain) =>
        LET truth == IF generated'.kind = "xor" THEN generated'.isSafe
                     ELSE generated'.correctIsA
            e == C36_Effect(current_puzzle, validator, gauntlet, seq_puzzle,
                            truth, call'.chose, call'.press.button)
        IN  /\ generated'.kind = C36_Kind(current_puzzle)
            /\ generated'.adversarial =
                  (current_puzzle \in {GENERALIZATION, FEATURE_SELECTION}
                   /\ isFirstTrial(validator))
            /\ (current_puzzle = SEQUENCE) = (call'.press # NoPress)
            /\ validator' = e.validator
            /\ gauntlet' = e.gauntlet
            /\ seq_puzzle' = e.seq_puzzle
            /\ call'.train = e.train
            /\ C36_Declared = e.complete
            /\ e.complete => puzzle_complete'

\* C36: given the same generated trials and the same decisions of the agent,
\* the trial functions of the interactive program, those of Game and the
\* loop bodies of the recorder take the validator, the gauntlet and the
\* sequence puzzle through the same states with the same training calls and
\* declare the puzzle complete at the same trial step: each trial step of
\* each of them is the one function C36_Effect of the objects and the inputs.
C36_SameTrialEffect ==
    [][C36_Step]_vars

\* The fifth press of puzzle 4 in Game completes the second attempt.
C36_Witness ==
    /\ runner = "game"
    /\ current_puzzle = SEQUENCE
    /\ call.press.to = "SUCCESS" /\ call.train = Train(64, 1, TRUE)
    /\ validator.total_trials = 2 /\ seq_puzzle = "START"

\* A trial step that completes puzzle 1 in the interactive program.
C36_WitnessInteractive ==
    /\ runner = "interactive"
    /\ current_puzzle = GENERALIZATION
    /\ call.train # NoTrain
    /\ puzzle_complete /\ validator.total_trials = 5

\* A loop iteration of the recorder that completes puzzle 5.
C36_WitnessAutorun ==
    /\ runner = "autorun"
    /\ current_puzzle = COMPOSITION
    /\ call.train # NoTrain
    /\ puzzle_complete /\ recorded = WARMUP_TRIALS + SCORED_TRIALS


\* The completion predicate of the current puzzle.
C37_Predicate ==
    IF current_puzzle = COMPOSITION THEN isComplete(gauntlet)
    ELSE hasLearned(validator)

\* C37 as stated: in every reachable state of the interactive program and
\* of Game, puzzle_complete implies the completion predicate of the current
\* puzzle (hasLearned for puzzles 1-4, gauntlet.isComplete for puzzle 5).
C37_Original ==
    (runner \in {"interactive", "game"} /\ puzzle_complete) => C37_Predicate


\* What holds of one step: the flag is set only by a step that leaves the
\* completion predicate true, and a set flag outlives the predicate only
\* through a trial that Game ran on the already completed puzzle.
C37_Step ==
    runner \in {"interactive", "game"} =>
        /\ (~puzzle_complete /\ puzzle_complete') => C37_Predicate'
        /\ (puzzle_complete /\ C37_Predicate /\ puzzle_complete' /\ ~C37_Predicate') =>
              /\ runner = "game"
              /\ current_puzzle # COMPOSITION
              /\ call'.train # NoTrain
              /\ ~call'.ret

\* C37, as far as it holds: puzzle_complete implies the completion predicate
\* in every state of the interactive program, and in Game for puzzle 5 and
\* at every step that sets the flag; in puzzles 1-4 of Game the flag stays
\* set when a further runTrial() records a failure.
C37_CompleteWhenSet ==
    /\ []((runner = "interactive" /\ puzzle_complete) => C37_Predicate)
    /\ []((runner = "game" /\ puzzle_complete /\ current_puzzle = COMPOSITION)
             => isComplete(gauntlet))
    /\ [][C37_Step]_vars

\* Game right after the runTrial() that completed puzzle 1.
C37_Witness ==
    /\ runner = "game" /\ pc = "idle"
    /\ current_puzzle = GENERALIZATION
    /\ puzzle_complete /\ call.ret
    /\ hasLearned(validator) /\ validator.total_trials = MIN_TRIALS

\* Game after one more runTrial() on the completed puzzle, with a wrong
\* decision: the flag is set and the validator has not learned.
C37_WitnessStale ==
    /\ runner = "game" /\ pc = "idle"
    /\ current_puzzle = GENERALIZATION
    /\ puzzle_complete /\ ~call.ret /\ call.train # NoTrain
    /\ validator.total_trials = MIN_TRIALS + 1 /\ validator.successes = 0


\* The bounds C38 states of the gauntlet's counters.
C38_Counters ==
    /\ 0 <= gauntlet.correct
    /\ gauntlet.correct <= gauntlet.scored_completed
    /\ gauntlet.scored_completed <= SCORED_TRIALS
    /\ gauntlet.warmup_completed <= WARMUP_TRIALS
    /\ isComplete(gauntlet) <=> gauntlet.scored_completed = SCORED_TRIALS
    /\ gauntlet.scored_completed > 0 => gauntlet.warmup_completed = WARMUP_TRIALS
    /\ recorded = currentTrials(gauntlet)

\* The state in which the victory screen is drawn: the gauntlet is as it
\* was at completion.
C38_Victory ==
    /\ (runner = "interactive" /\ pc = "victory") =>
          (demo_complete /\ current_puzzle = COMPOSITION /\ isComplete(gauntlet))
    /\ (runner = "autorun" /\ call.op = "renderVictory") =>
          (isComplete(gauntlet) /\ call.arg = gauntlet.correct)

\* What C38 states of one step: a complete gauntlet records nothing more,
\* and in the interactive program and the recorder it never changes again.
C38_Step ==
    (runner \in Runners /\ isComplete(gauntlet)) =>
        /\ call'.train = NoTrain
        /\ gauntlet' = gauntlet \/ gauntlet' = GauntletState_reset(gauntlet)
        /\ runner \in {"interactive", "autorun"} => gauntlet' = gauntlet

\* C38: no outcome is recorded into the gauntlet once it is complete;
\* 0 <= correct <= scored_completed <= 20 and warmup_completed <= 10 in
\* every state; scored_completed = 20 exactly when the gauntlet is complete;
\* the score the victory screen is given is the correct count at completion,
\* which the advance past the last puzzle does not reset.
C38_GauntletBounded ==
    /\ [](runner \in Runners => (C38_Counters /\ C38_Victory))
    /\ [][C38_Step]_vars

\* The victory screen of the interactive program after a gauntlet with
\* 13 of 20 scored trials correct.
C38_Witness ==
    /\ runner = "interactive" /\ pc = "victory"
    /\ call.key = "LF"
    /\ gauntlet.scored_completed = SCORED_TRIALS
    /\ gauntlet.correct = 13

\* Game: runTrial() called on the complete gauntlet returned true and
\* recorded nothing.
C38_WitnessGuard ==
    /\ runner = "game"
    /\ call.op = "runPuzzle5Trial" /\ call.ret /\ call.train = NoTrain
    /\ isComplete(gauntlet) /\ recorded = WARMUP_TRIALS + SCORED_TRIALS


\* The states of the programs that stop a validator puzzle at completion:
\* the interactive loop, the recorder, and Game inside
\* runPuzzleToCompletion and at its return.
C39_Stopping ==
    /\ current_puzzle # COMPOSITION
    /\ \/ runner \in {"interactive", "autorun"}
       \/ runner = "game" /\ (pc = "rptc" \/ last_trials # 0)

\* C39: in every program that stops a validator puzzle at completion the
\* count of consecutive successes shown is at most 5, and it is above 4
\* only at total_trials = 5, when the first five outcomes were all correct.
C39_StreakAtMostFive ==
    C39_Stopping =>
        /\ validator.successes <= MIN_TRIALS
        /\ validator.successes > requiredSuccesses =>
              /\ validator.total_trials = MIN_TRIALS
              /\ validator.failures = 0
              /\ vlog = <<TRUE, TRUE, TRUE, TRUE, TRUE>>

\* The recorder's frame of the fifth trial of puzzle 2, all five correct:
\* the progress count reads 5/4.
C39_Witness ==
    /\ runner = "autorun" /\ current_puzzle = FEATURE_SELECTION
    /\ call.train # NoTrain
    /\ validator.successes = MIN_TRIALS /\ validator.total_trials = MIN_TRIALS
    /\ puzzle_complete

\* Completion at the sixth trial, after a first failure, with four in a row.
C39_WitnessFour ==
    /\ runner = "game" /\ pc = "idle" /\ last_trials = 6
    /\ validator.successes = requiredSuccesses /\ validator.total_trials = 6
    /\ validator.failures = 2


----------------------------------------------------------------------------
(* The trial screens of the recorder (renderPuzzle1Trial..5 with            *)
(* drawHistory, drawProgressBar and drawBrainDiagram), as the drawing calls *)
(* they make on a TextBuffer, in the order they make them.  A string that   *)
(* snprintf builds from the trial or from the network, which the model does *)
(* not hold, is drawn as its format string; the lines of the history are    *)
(* built from the entries.                                                  *)

LEFT_COLUMN_WIDTH == 38
RIGHT_COLUMN_START == 39
header_TITLE_Y == 0
header_DIVIDER_Y == 1
header_RULE_Y == 2
header_PROGRESS_Y == 3
header_PROGRESS_BAR_X == 10
header_PROGRESS_COUNT_X == 23
header_SECTION_END_Y == 4
trial_LABEL_Y == 6
trial_OPTION_A_Y == 7
trial_OPTION_B_Y == 8
trial_PICK_Y == 9
trial_RESULT_Y == 10
history_DIVIDER_Y == 12
history_LABEL_Y == 13
completion_MESSAGE_Y == 18
footer_DIVIDER_Y == HEIGHT - 3
footer_CONTROLS_Y == HEIGHT - 2
brain_X == RIGHT_COLUMN_START
brain_Y == 0

\* buffer.putString(x, y, str)
PutString(x, y, str) ==
    [op |-> "putString", x |-> x, y |-> y, str |-> str, length |-> 0, c |-> NUL]

\* buffer.drawHLine(x, y, length, c)
HLine(x, y, length, c) ==
    [op |-> "drawHLine", x |-> x, y |-> y, str |-> <<>>, length |-> length, c |-> c]

\* The buffer after the calls from the i-th on have been made on it.
RECURSIVE drawAll(_, _, _)
drawAll(b, calls, i) ==
    IF i > Len(calls) THEN b
    ELSE LET d == calls[i]
             drawn == IF d.op = "putString"
                      THEN TextBuffer_putString(b, d.x, d.y, d.str)
                      ELSE TextBuffer_drawHLine(b, d.x, d.y, d.length, d.c)
         IN  IF Len(drawn) = HEIGHT THEN drawAll(drawn, calls, i + 1) ELSE drawn

\* %d of a non-negative int.
RECURSIVE Decimal(_)
Decimal(n) ==
    IF n < 10 THEN <<48 + n>> ELSE Decimal(n \div 10) \o <<48 + (n % 10)>>

\* The bytes of the summaries the harness and the recorder add.
SummaryBytes(summary) ==
    CASE summary = "A->B SUCCESS" -> <<65, 45, 62, 66, 32, 83, 85, 67, 67, 69, 83, 83>>
      [] summary = "B first FAIL" -> <<66, 32, 102, 105, 114, 115, 116, 32, 70, 65, 73, 76>>
      [] summary = "A->A FAIL" -> <<65, 45, 62, 65, 32, 70, 65, 73, 76>>
      [] summary = SUMMARY_1 -> <<37, 115, 40, 37, 100, 41, 32, 118, 115, 32, 37, 115, 40, 37, 100, 41>>
      [] summary = SUMMARY_2 -> <<37, 115, 32, 37, 115, 32, 118, 115, 32, 37, 115, 32, 37, 115>>
      [] summary = SUMMARY_3 -> <<112, 114, 101, 100, 32, 37, 115, 44, 32, 119, 97, 115, 32, 37, 115>>
      [] summary = SUMMARY_5 -> <<37, 115, 32, 45, 32, 37, 99, 40, 37, 100, 41, 32, 37, 115, 32, 37, 99, 40, 37, 100, 41>>

\* The line drawHistory prints for one entry: "  Trial %d: %s %s" into
\* char line[60], cut to 50 chars when longer.
historyLine(entry) ==
    LET whole == <<32, 32, 84, 114, 105, 97, 108, 32>> \o Decimal(entry.trialNum) \o <<58, 32>>
                 \o (IF entry.correct THEN <<91, 79, 75, 93>> ELSE <<91, 88, 93>>)
                 \o <<32>> \o SummaryBytes(entry.summary)
        line == IF Len(whole) > 59 THEN SubSeq(whole, 1, 59) ELSE whole
    IN  IF Len(line) > 50 THEN SubSeq(line, 1, 50) ELSE line

\* drawHistory's loop, for (i = 0; i < entries.size() && startY + 1 + i <
\* HEIGHT - 2; i++): the number of iterations (the condition, once false,
\* stays false).
drawHistoryCount(entries, startY) ==
    Cardinality({i \in 0..(Len(entries) - 1) : startY + 1 + i < HEIGHT - 2})

\* drawHistory(buffer, history, startY): the label, then the entries, the
\* most recent first.
drawHistory(entries, startY) ==
    <<PutString(0, startY, <<72, 73, 83, 84, 79, 82, 89, 58>>)>>
    \o [i \in 1..drawHistoryCount(entries, startY) |->
           PutString(0, startY + i, historyLine(entries[Len(entries) - (i - 1)]))]

\* drawProgressBar(buffer, x, y, value, max)
drawProgressBar(x, y, value, max) ==
    LET ratio == IF max > 0 THEN (value * 10) \div max ELSE 0
        filled == IF ratio > 10 THEN 10 ELSE ratio
    IN  <<PutString(x, y, <<91>> \o [i \in 1..10 |-> IF i - 1 < filled THEN 35 ELSE 46]
                          \o <<93>>)>>

\* The header line of the diagram, padded with spaces to 40 chars and
\* closed with '|'.
brainHeader ==
    LET \* "| enen's brain (%zu bytes)"
        text == <<124, 32, 101, 110, 101, 110, 39, 115, 32, 98, 114, 97, 105, 110, 32, 40, 37, 122, 117, 32, 98, 121, 116, 101, 115, 41>>
    IN  text \o [i \in 1..(40 - Len(text)) |-> 32] \o <<124>>

\* drawBrainDiagram(buffer, x, y, type, bytes) with bytes > 0
drawBrainDiagram(x, y, type) ==
    <<
      \* "+---------------------------------------+"
      PutString(x, y,
          <<43, 45, 45, 45, 45, 45, 45, 45, 45, 45, 45, 45, 45, 45, 45, 45, 45, 45, 45, 45, 45, 45, 45, 45, 45, 45, 45, 45, 45, 45, 45, 45, 45, 45, 45, 45, 45, 45, 45, 45, 43>>),
      PutString(x, y + 1, brainHeader),
      \* "|                                       |"
      PutString(x, y + 2,
          <<124, 32, 32, 32, 32, 32, 32, 32, 32, 32, 32, 32, 32, 32, 32, 32, 32, 32, 32, 32, 32, 32, 32, 32, 32, 32, 32, 32, 32, 32, 32, 32, 32, 32, 32, 32, 32, 32, 32, 32, 124>>),
      \* "| SEES         THINKS        DECIDES    |"
      PutString(x, y + 3,
          <<124, 32, 83, 69, 69, 83, 32, 32, 32, 32, 32, 32, 32, 32, 32, 84, 72, 73, 78, 75, 83, 32, 32, 32, 32, 32, 32, 32, 32, 68, 69, 67, 73, 68, 69, 83, 32, 32, 32, 32, 124>>),
      \* "|                                       |"
      PutString(x, y + 4,
          <<124, 32, 32, 32, 32, 32, 32, 32, 32, 32, 32, 32, 32, 32, 32, 32, 32, 32, 32, 32, 32, 32, 32, 32, 32, 32, 32, 32, 32, 32, 32, 32, 32, 32, 32, 32, 32, 32, 32, 32, 124>>)
    >>
    \o CASE type = GENERALIZATION ->
    <<
      \* "| size A  -+               +-> pick A   |"
      PutString(x, y + 5,
          <<124, 32, 115, 105, 122, 101, 32, 65, 32, 32, 45, 43, 32, 32, 32, 32, 32, 32, 32, 32, 32, 32, 32, 32, 32, 32, 32, 43, 45, 62, 32, 112, 105, 99, 107, 32, 65, 32, 32, 32, 124>>),
      \* "| size B  -+-> 8 neurons --+            |"
      PutString(x, y + 6,
          <<124, 32, 115, 105, 122, 101, 32, 66, 32, 32, 45, 43, 45, 62, 32, 56, 32, 110, 101, 117, 114, 111, 110, 115, 32, 45, 45, 43, 32, 32, 32, 32, 32, 32, 32, 32, 32, 32, 32, 32, 124>>),
      \* "| color A -+               +-> pick B   |"
      PutString(x, y + 7,
          <<124, 32, 99, 111, 108, 111, 114, 32, 65, 32, 45, 43, 32, 32, 32, 32, 32, 32, 32, 32, 32, 32, 32, 32, 32, 32, 32, 43, 45, 62, 32, 112, 105, 99, 107, 32, 66, 32, 32, 32, 124>>),
      \* "| color B -+                            |"
      PutString(x, y + 8,
          <<124, 32, 99, 111, 108, 111, 114, 32, 66, 32, 45, 43, 32, 32, 32, 32, 32, 32, 32, 32, 32, 32, 32, 32, 32, 32, 32, 32, 32, 32, 32, 32, 32, 32, 32, 32, 32, 32, 32, 32, 124>>),
      \* "+---------------------------------------+"
      PutString(x, y + 9,
          <<43, 45, 45, 45, 45, 45, 45, 45, 45, 45, 45, 45, 45, 45, 45, 45, 45, 45, 45, 45, 45, 45, 45, 45, 45, 45, 45, 45, 45, 45, 45, 45, 45, 45, 45, 45, 45, 45, 45, 45, 43>>)
    >>
         [] type = FEATURE_SELECTION ->
    <<
      \* "| color A -+               +-> pick A   |"
      PutString(x, y + 5,
          <<124, 32, 99, 111, 108, 111, 114, 32, 65, 32, 45, 43, 32, 32, 32, 32, 32, 32, 32, 32, 32, 32, 32, 32, 32, 32, 32, 43, 45, 62, 32, 112, 105, 99, 107, 32, 65, 32, 32, 32, 124>>),
      \* "| shape A -+-> 8 neurons --+            |"
      PutString(x, y + 6,
          <<124, 32, 115, 104, 97, 112, 101, 32, 65, 32, 45, 43, 45, 62, 32, 56, 32, 110, 101, 117, 114, 111, 110, 115, 32, 45, 45, 43, 32, 32, 32, 32, 32, 32, 32, 32, 32, 32, 32, 32, 124>>),
      \* "| color B -+               +-> pick B   |"
      PutString(x, y + 7,
          <<124, 32, 99, 111, 108, 111, 114, 32, 66, 32, 45, 43, 32, 32, 32, 32, 32, 32, 32, 32, 32, 32, 32, 32, 32, 32, 32, 43, 45, 62, 32, 112, 105, 99, 107, 32, 66, 32, 32, 32, 124>>),
      \* "| shape B -+                            |"
      PutString(x, y + 8,
          <<124, 32, 115, 104, 97, 112, 101, 32, 66, 32, 45, 43, 32, 32, 32, 32, 32, 32, 32, 32, 32, 32, 32, 32, 32, 32, 32, 32, 32, 32, 32, 32, 32, 32, 32, 32, 32, 32, 32, 32, 124>>),
      \* "+---------------------------------------+"
      PutString(x, y + 9,
          <<43, 45, 45, 45, 45, 45, 45, 45, 45, 45, 45, 45, 45, 45, 45, 45, 45, 45, 45, 45, 45, 45, 45, 45, 45, 45, 45, 45, 45, 45, 45, 45, 45, 45, 45, 45, 45, 45, 45, 45, 43>>)
    >>
         [] type = XOR_CONTEXT ->
    <<
      \* "| light   -+-> 4 neurons --> safe path  |"
      PutString(x, y + 5,
          <<124, 32, 108, 105, 103, 104, 116, 32, 32, 32, 45, 43, 45, 62, 32, 52, 32, 110, 101, 117, 114, 111, 110, 115, 32, 45, 45, 62, 32, 115, 97, 102, 101, 32, 112, 97, 116, 104, 32, 32, 124>>),
      \* "| path    -+                            |"
      PutString(x, y + 6,
          <<124, 32, 112, 97, 116, 104, 32, 32, 32, 32, 45, 43, 32, 32, 32, 32, 32, 32, 32, 32, 32, 32, 32, 32, 32, 32, 32, 32, 32, 32, 32, 32, 32, 32, 32, 32, 32, 32, 32, 32, 124>>),
      \* "|                                       |"
      PutString(x, y + 7,
          <<124, 32, 32, 32, 32, 32, 32, 32, 32, 32, 32, 32, 32, 32, 32, 32, 32, 32, 32, 32, 32, 32, 32, 32, 32, 32, 32, 32, 32, 32, 32, 32, 32, 32, 32, 32, 32, 32, 32, 32, 124>>),
      \* "|                                       |"
      PutString(x, y + 8,
          <<124, 32, 32, 32, 32, 32, 32, 32, 32, 32, 32, 32, 32, 32, 32, 32, 32, 32, 32, 32, 32, 32, 32, 32, 32, 32, 32, 32, 32, 32, 32, 32, 32, 32, 32, 32, 32, 32, 32, 32, 124>>),
      \* "+---------------------------------------+"
      PutString(x, y + 9,
          <<43, 45, 45, 45, 45, 45, 45, 45, 45, 45, 45, 45, 45, 45, 45, 45, 45, 45, 45, 45, 45, 45, 45, 45, 45, 45, 45, 45, 45, 45, 45, 45, 45, 45, 45, 45, 45, 45, 45, 45, 43>>)
    >>
         [] type = SEQUENCE ->
    <<
      \* "|                          +-> press A  |"
      PutString(x, y + 5,
          <<124, 32, 32, 32, 32, 32, 32, 32, 32, 32, 32, 32, 32, 32, 32, 32, 32, 32, 32, 32, 32, 32, 32, 32, 32, 32, 32, 43, 45, 62, 32, 112, 114, 101, 115, 115, 32, 65, 32, 32, 124>>),
      \* "| last key --> 4 neurons --+            |"
      PutString(x, y + 6,
          <<124, 32, 108, 97, 115, 116, 32, 107, 101, 121, 32, 45, 45, 62, 32, 52, 32, 110, 101, 117, 114, 111, 110, 115, 32, 45, 45, 43, 32, 32, 32, 32, 32, 32, 32, 32, 32, 32, 32, 32, 124>>),
      \* "|                          +-> press B  |"
      PutString(x, y + 7,
          <<124, 32, 32, 32, 32, 32, 32, 32, 32, 32, 32, 32, 32, 32, 32, 32, 32, 32, 32, 32, 32, 32, 32, 32, 32, 32, 32, 43, 45, 62, 32, 112, 114, 101, 115, 115, 32, 66, 32, 32, 124>>),
      \* "|                                       |"
      PutString(x, y + 8,
          <<124, 32, 32, 32, 32, 32, 32, 32, 32, 32, 32, 32, 32, 32, 32, 32, 32, 32, 32, 32, 32, 32, 32, 32, 32, 32, 32, 32, 32, 32, 32, 32, 32, 32, 32, 32, 32, 32, 32, 32, 124>>),
      \* "+---------------------------------------+"
      PutString(x, y + 9,
          <<43, 45, 45, 45, 45, 45, 45, 45, 45, 45, 45, 45, 45, 45, 45, 45, 45, 45, 45, 45, 45, 45, 45, 45, 45, 45, 45, 45, 45, 45, 45, 45, 45, 45, 45, 45, 45, 45, 45, 45, 43>>)
    >>
         [] type = COMPOSITION ->
    <<
      \* "| light  -+                +-> pick A   |"
      PutString(x, y + 5,
          <<124, 32, 108, 105, 103, 104, 116, 32, 32, 45, 43, 32, 32, 32, 32, 32, 32, 32, 32, 32, 32, 32, 32, 32, 32, 32, 32, 43, 45, 62, 32, 112, 105, 99, 107, 32, 65, 32, 32, 32, 124>>),
      \* "| size A -+> 8 neurons > 4 neurons      |"
      PutString(x, y + 6,
          <<124, 32, 115, 105, 122, 101, 32, 65, 32, 45, 43, 62, 32, 56, 32, 110, 101, 117, 114, 111, 110, 115, 32, 62, 32, 52, 32, 110, 101, 117, 114, 111, 110, 115, 32, 32, 32, 32, 32, 32, 124>>),
      \* "| size B -+                +-> pick B   |"
      PutString(x, y + 7,
          <<124, 32, 115, 105, 122, 101, 32, 66, 32, 45, 43, 32, 32, 32, 32, 32, 32, 32, 32, 32, 32, 32, 32, 32, 32, 32, 32, 43, 45, 62, 32, 112, 105, 99, 107, 32, 66, 32, 32, 32, 124>>),
      \* "|                                       |"
      PutString(x, y + 8,
          <<124, 32, 32, 32, 32, 32, 32, 32, 32, 32, 32, 32, 32, 32, 32, 32, 32, 32, 32, 32, 32, 32, 32, 32, 32, 32, 32, 32, 32, 32, 32, 32, 32, 32, 32, 32, 32, 32, 32, 32, 124>>),
      \* "| (two layers - this puzzle is harder)  |"
      PutString(x, y + 9,
          <<124, 32, 40, 116, 119, 111, 32, 108, 97, 121, 101, 114, 115, 32, 45, 32, 116, 104, 105, 115, 32, 112, 117, 122, 122, 108, 101, 32, 105, 115, 32, 104, 97, 114, 100, 101, 114, 41, 32, 32, 124>>),
      \* "+---------------------------------------+"
      PutString(x, y + 10,
          <<43, 45, 45, 45, 45, 45, 45, 45, 45, 45, 45, 45, 45, 45, 45, 45, 45, 45, 45, 45, 45, 45, 45, 45, 45, 45, 45, 45, 45, 45, 45, 45, 45, 45, 45, 45, 45, 45, 45, 45, 43>>)
    >>

\* renderPuzzle1Trial(buffer, ..., history, trialNum, successes, bytes, complete)
renderPuzzle1Trial(entries, successes, correct, complete) ==
    <<
      \* "ENEN DEMO: SIZE"
      PutString(0, header_TITLE_Y,
          <<69, 78, 69, 78, 32, 68, 69, 77, 79, 58, 32, 83, 73, 90, 69>>),
      HLine(0, header_DIVIDER_Y, LEFT_COLUMN_WIDTH, 61),
      \* "Rule: Bigger is safe. Ignore color."
      PutString(0, header_RULE_Y,
          <<82, 117, 108, 101, 58, 32, 66, 105, 103, 103, 101, 114, 32, 105, 115, 32, 115, 97, 102, 101, 46, 32, 73, 103, 110, 111, 114, 101, 32, 99, 111, 108, 111, 114, 46>>),
      \* "Progress: "
      PutString(0, header_PROGRESS_Y,
          <<80, 114, 111, 103, 114, 101, 115, 115, 58, 32>>)
    >>
    \o drawProgressBar(header_PROGRESS_BAR_X, header_PROGRESS_Y, successes, 4)
    \o <<
      \* " %d/4"
      PutString(header_PROGRESS_COUNT_X, header_PROGRESS_Y,
          <<32, 37, 100, 47, 52>>),
      HLine(0, header_SECTION_END_Y, LEFT_COLUMN_WIDTH, 45)
    >>
    \o drawBrainDiagram(brain_X, brain_Y, GENERALIZATION)
    \o <<
      \* "TRIAL %d:"
      PutString(0, trial_LABEL_Y,
          <<84, 82, 73, 65, 76, 32, 37, 100, 58>>),
      \* "  [A] %s, size %d"
      PutString(0, trial_OPTION_A_Y,
          <<32, 32, 91, 65, 93, 32, 37, 115, 44, 32, 115, 105, 122, 101, 32, 37, 100>>),
      \* "  [B] %s, size %d"
      PutString(0, trial_OPTION_B_Y,
          <<32, 32, 91, 66, 93, 32, 37, 115, 44, 32, 115, 105, 122, 101, 32, 37, 100>>),
      \* "  Pick: %c (%s)"
      PutString(0, trial_PICK_Y,
          <<32, 32, 80, 105, 99, 107, 58, 32, 37, 99, 32, 40, 37, 115, 41>>),
      PutString(0, trial_RESULT_Y,
          IF correct
          THEN \* "  [OK] CORRECT"
               <<32, 32, 91, 79, 75, 93, 32, 67, 79, 82, 82, 69, 67, 84>>
          ELSE \* "  [X] WRONG"
               <<32, 32, 91, 88, 93, 32, 87, 82, 79, 78, 71>>)
    >>
    \o <<HLine(0, history_DIVIDER_Y, LEFT_COLUMN_WIDTH, 45)>>
    \o drawHistory(entries, history_LABEL_Y)
    \o (IF complete
        THEN <<
      \* "enen learned: bigger is always safe."
      PutString(0, completion_MESSAGE_Y,
          <<101, 110, 101, 110, 32, 108, 101, 97, 114, 110, 101, 100, 58, 32, 98, 105, 103, 103, 101, 114, 32, 105, 115, 32, 97, 108, 119, 97, 121, 115, 32, 115, 97, 102, 101, 46>>)
        >>
        ELSE <<>>)
    \o <<
      HLine(0, footer_DIVIDER_Y, WIDTH, 45),
      PutString(0, footer_CONTROLS_Y,
          IF complete
          THEN \* "[Enter] Continue    [Q] Quit"
               <<91, 69, 110, 116, 101, 114, 93, 32, 67, 111, 110, 116, 105, 110, 117, 101, 32, 32, 32, 32, 91, 81, 93, 32, 81, 117, 105, 116>>
          ELSE \* "[Space] Next Trial    [Q] Quit"
               <<91, 83, 112, 97, 99, 101, 93, 32, 78, 101, 120, 116, 32, 84, 114, 105, 97, 108, 32, 32, 32, 32, 91, 81, 93, 32, 81, 117, 105, 116>>)
    >>

\* renderPuzzle2Trial(buffer, ..., history, trialNum, successes, bytes, complete)
renderPuzzle2Trial(entries, successes, correct, complete) ==
    <<
      \* "ENEN DEMO: EXCEPTIONS"
      PutString(0, header_TITLE_Y,
          <<69, 78, 69, 78, 32, 68, 69, 77, 79, 58, 32, 69, 88, 67, 69, 80, 84, 73, 79, 78, 83>>),
      HLine(0, header_DIVIDER_Y, LEFT_COLUMN_WIDTH, 61),
      \* "Rule: Circle safe. Blue square best."
      PutString(0, header_RULE_Y,
          <<82, 117, 108, 101, 58, 32, 67, 105, 114, 99, 108, 101, 32, 115, 97, 102, 101, 46, 32, 66, 108, 117, 101, 32, 115, 113, 117, 97, 114, 101, 32, 98, 101, 115, 116, 46>>),
      \* "Progress: "
      PutString(0, header_PROGRESS_Y,
          <<80, 114, 111, 103, 114, 101, 115, 115, 58, 32>>)
    >>
    \o drawProgressBar(header_PROGRESS_BAR_X, header_PROGRESS_Y, successes, 4)
    \o <<
      \* " %d/4"
      PutString(header_PROGRESS_COUNT_X, header_PROGRESS_Y,
          <<32, 37, 100, 47, 52>>),
      HLine(0, header_SECTION_END_Y, LEFT_COLUMN_WIDTH, 45)
    >>
    \o drawBrainDiagram(brain_X, brain_Y, FEATURE_SELECTION)
    \o <<
      \* "TRIAL %d:"
      PutString(0, trial_LABEL_Y,
          <<84, 82, 73, 65, 76, 32, 37, 100, 58>>),
      \* "  [A] %s %s"
      PutString(0, trial_OPTION_A_Y,
          <<32, 32, 91, 65, 93, 32, 37, 115, 32, 37, 115>>),
      \* "  [B] %s %s"
      PutString(0, trial_OPTION_B_Y,
          <<32, 32, 91, 66, 93, 32, 37, 115, 32, 37, 115>>),
      \* "  Pick: %c (%s %s)"
      PutString(0, trial_PICK_Y,
          <<32, 32, 80, 105, 99, 107, 58, 32, 37, 99, 32, 40, 37, 115, 32, 37, 115, 41>>),
      PutString(0, trial_RESULT_Y,
          IF correct
          THEN \* "  [OK] CORRECT"
               <<32, 32, 91, 79, 75, 93, 32, 67, 79, 82, 82, 69, 67, 84>>
          ELSE \* "  [X] WRONG"
               <<32, 32, 91, 88, 93, 32, 87, 82, 79, 78, 71>>)
    >>
    \o <<HLine(0, history_DIVIDER_Y, LEFT_COLUMN_WIDTH, 45)>>
    \o drawHistory(entries, history_LABEL_Y)
    \o (IF complete
        THEN <<
      \* "enen learned: circles safe, blue squares best."
      PutString(0, completion_MESSAGE_Y,
          <<101, 110, 101, 110, 32, 108, 101, 97, 114, 110, 101, 100, 58, 32, 99, 105, 114, 99, 108, 101, 115, 32, 115, 97, 102, 101, 44, 32, 98, 108, 117, 101, 32, 115, 113, 117, 97, 114, 101, 115, 32, 98, 101, 115, 116, 46>>)
        >>
        ELSE <<>>)
    \o <<
      HLine(0, footer_DIVIDER_Y, WIDTH, 45),
      PutString(0, footer_CONTROLS_Y,
          IF complete
          THEN \* "[Enter] Continue    [Q] Quit"
               <<91, 69, 110, 116, 101, 114, 93, 32, 67, 111, 110, 116, 105, 110, 117, 101, 32, 32, 32, 32, 91, 81, 93, 32, 81, 117, 105, 116>>
          ELSE \* "[Space] Next Trial    [Q] Quit"
               <<91, 83, 112, 97, 99, 101, 93, 32, 78, 101, 120, 116, 32, 84, 114, 105, 97, 108, 32, 32, 32, 32, 91, 81, 93, 32, 81, 117, 105, 116>>)
    >>

\* renderPuzzle3Trial(buffer, ..., history, trialNum, successes, bytes, complete)
renderPuzzle3Trial(entries, successes, correct, complete) ==
    <<
      \* "ENEN DEMO: CONTEXT"
      PutString(0, header_TITLE_Y,
          <<69, 78, 69, 78, 32, 68, 69, 77, 79, 58, 32, 67, 79, 78, 84, 69, 88, 84>>),
      HLine(0, header_DIVIDER_Y, LEFT_COLUMN_WIDTH, 61),
      \* "Rule: ON=left, OFF=right."
      PutString(0, header_RULE_Y,
          <<82, 117, 108, 101, 58, 32, 79, 78, 61, 108, 101, 102, 116, 44, 32, 79, 70, 70, 61, 114, 105, 103, 104, 116, 46>>),
      \* "Progress: "
      PutString(0, header_PROGRESS_Y,
          <<80, 114, 111, 103, 114, 101, 115, 115, 58, 32>>)
    >>
    \o drawProgressBar(header_PROGRESS_BAR_X, header_PROGRESS_Y, successes, 4)
    \o <<
      \* " %d/4"
      PutString(header_PROGRESS_COUNT_X, header_PROGRESS_Y,
          <<32, 37, 100, 47, 52>>),
      HLine(0, header_SECTION_END_Y, LEFT_COLUMN_WIDTH, 45)
    >>
    \o drawBrainDiagram(brain_X, brain_Y, XOR_CONTEXT)
    \o <<
      \* "TRIAL %d:"
      PutString(0, trial_LABEL_Y,
          <<84, 82, 73, 65, 76, 32, 37, 100, 58>>),
      \* "  Scenario: Light %s, Path %s"
      PutString(0, trial_OPTION_A_Y,
          <<32, 32, 83, 99, 101, 110, 97, 114, 105, 111, 58, 32, 76, 105, 103, 104, 116, 32, 37, 115, 44, 32, 80, 97, 116, 104, 32, 37, 115>>),
      \* "  enen predicts: %s"
      PutString(0, trial_OPTION_B_Y,
          <<32, 32, 101, 110, 101, 110, 32, 112, 114, 101, 100, 105, 99, 116, 115, 58, 32, 37, 115>>),
      \* "  Reality: %s - %s"
      PutString(0, trial_PICK_Y,
          <<32, 32, 82, 101, 97, 108, 105, 116, 121, 58, 32, 37, 115, 32, 45, 32, 37, 115>>)
    >>
    \o <<HLine(0, 11, LEFT_COLUMN_WIDTH, 45)>>
    \o drawHistory(entries, 12)
    \o (IF complete
        THEN <<
      \* "enen learned: the light changes which path is safe."
      PutString(0, 17,
          <<101, 110, 101, 110, 32, 108, 101, 97, 114, 110, 101, 100, 58, 32, 116, 104, 101, 32, 108, 105, 103, 104, 116, 32, 99, 104, 97, 110, 103, 101, 115, 32, 119, 104, 105, 99, 104, 32, 112, 97, 116, 104, 32, 105, 115, 32, 115, 97, 102, 101, 46>>)
        >>
        ELSE <<>>)
    \o <<
      HLine(0, footer_DIVIDER_Y, WIDTH, 45),
      PutString(0, footer_CONTROLS_Y,
          IF complete
          THEN \* "[Enter] Continue    [Q] Quit"
               <<91, 69, 110, 116, 101, 114, 93, 32, 67, 111, 110, 116, 105, 110, 117, 101, 32, 32, 32, 32, 91, 81, 93, 32, 81, 117, 105, 116>>
          ELSE \* "[Space] Next Trial    [Q] Quit"
               <<91, 83, 112, 97, 99, 101, 93, 32, 78, 101, 120, 116, 32, 84, 114, 105, 97, 108, 32, 32, 32, 32, 91, 81, 93, 32, 81, 117, 105, 116>>)
    >>
\* renderPuzzle4Trial(buffer, action, success, inProgress, history, trialNum,
\* successes, bytes, complete)
renderPuzzle4Trial(entries, successes, success, stepInProgress, complete) ==
    <<
      \* "ENEN DEMO: ORDER"
      PutString(0, header_TITLE_Y,
          <<69, 78, 69, 78, 32, 68, 69, 77, 79, 58, 32, 79, 82, 68, 69, 82>>),
      HLine(0, header_DIVIDER_Y, LEFT_COLUMN_WIDTH, 61),
      \* "Rule: A first, then B."
      PutString(0, header_RULE_Y,
          <<82, 117, 108, 101, 58, 32, 65, 32, 102, 105, 114, 115, 116, 44, 32, 116, 104, 101, 110, 32, 66, 46>>),
      \* "Progress: "
      PutString(0, header_PROGRESS_Y,
          <<80, 114, 111, 103, 114, 101, 115, 115, 58, 32>>)
    >>
    \o drawProgressBar(header_PROGRESS_BAR_X, header_PROGRESS_Y, successes, 4)
    \o <<
      \* " %d/4"
      PutString(header_PROGRESS_COUNT_X, header_PROGRESS_Y,
          <<32, 37, 100, 47, 52>>),
      HLine(0, header_SECTION_END_Y, LEFT_COLUMN_WIDTH, 45)
    >>
    \o drawBrainDiagram(brain_X, brain_Y, SEQUENCE)
    \o <<
      \* "TRIAL %d:"
      PutString(0, trial_LABEL_Y,
          <<84, 82, 73, 65, 76, 32, 37, 100, 58>>),
      \* "  enen presses: %c"
      PutString(0, trial_OPTION_A_Y,
          <<32, 32, 101, 110, 101, 110, 32, 112, 114, 101, 115, 115, 101, 115, 58, 32, 37, 99>>),
      PutString(0, trial_OPTION_B_Y,
          IF stepInProgress
          THEN \* "  Good start..."
               <<32, 32, 71, 111, 111, 100, 32, 115, 116, 97, 114, 116, 46, 46, 46>>
          ELSE IF success
          THEN \* "  [OK] Door opens!"
               <<32, 32, 91, 79, 75, 93, 32, 68, 111, 111, 114, 32, 111, 112, 101, 110, 115, 33>>
          ELSE \* "  [X] Wrong order!"
               <<32, 32, 91, 88, 93, 32, 87, 114, 111, 110, 103, 32, 111, 114, 100, 101, 114, 33>>)
    >>
    \o <<HLine(0, history_DIVIDER_Y, LEFT_COLUMN_WIDTH, 45)>>
    \o drawHistory(entries, history_LABEL_Y)
    \o (IF complete
        THEN <<
      \* "enen learned: A first, then B."
      PutString(0, completion_MESSAGE_Y,
          <<101, 110, 101, 110, 32, 108, 101, 97, 114, 110, 101, 100, 58, 32, 65, 32, 102, 105, 114, 115, 116, 44, 32, 116, 104, 101, 110, 32, 66, 46>>)
        >>
        ELSE <<>>)
    \o <<
      HLine(0, footer_DIVIDER_Y, WIDTH, 45),
      PutString(0, footer_CONTROLS_Y,
          IF complete
          THEN \* "[Enter] Continue    [Q] Quit"
               <<91, 69, 110, 116, 101, 114, 93, 32, 67, 111, 110, 116, 105, 110, 117, 101, 32, 32, 32, 32, 91, 81, 93, 32, 81, 117, 105, 116>>
          ELSE \* "[Space] Next Trial    [Q] Quit"
               <<91, 83, 112, 97, 99, 101, 93, 32, 78, 101, 120, 116, 32, 84, 114, 105, 97, 108, 32, 32, 32, 32, 91, 81, 93, 32, 81, 117, 105, 116>>)
    >>

\* renderPuzzle5Trial(buffer, trial, choseA, correct, history, gauntlet, bytes,
\* complete)
renderPuzzle5Trial(entries, g, correct, complete) ==
    <<
      \* "ENEN DEMO: EVERYTHING"
      PutString(0, header_TITLE_Y,
          <<69, 78, 69, 78, 32, 68, 69, 77, 79, 58, 32, 69, 86, 69, 82, 89, 84, 72, 73, 78, 71>>),
      HLine(0, header_DIVIDER_Y, LEFT_COLUMN_WIDTH, 61),
      \* "Rule: ON=bigger, OFF=smaller."
      PutString(0, header_RULE_Y,
          <<82, 117, 108, 101, 58, 32, 79, 78, 61, 98, 105, 103, 103, 101, 114, 44, 32, 79, 70, 70, 61, 115, 109, 97, 108, 108, 101, 114, 46>>),
      PutString(0, header_PROGRESS_Y,
          IF inWarmup(g)
          THEN \* "Phase: WARMUP %d/%d"
               <<80, 104, 97, 115, 101, 58, 32, 87, 65, 82, 77, 85, 80, 32, 37, 100, 47, 37, 100>>
          ELSE \* "Phase: SCORED %d/%d"
               <<80, 104, 97, 115, 101, 58, 32, 83, 67, 79, 82, 69, 68, 32, 37, 100, 47, 37, 100>>)
    >>
    \o (IF ~inWarmup(g)
        THEN <<
      \* "Score: %d/%d (%d%%)"
      PutString(0, header_SECTION_END_Y,
          <<83, 99, 111, 114, 101, 58, 32, 37, 100, 47, 37, 100, 32, 40, 37, 100, 37, 37, 41>>)
        >>
        ELSE <<>>)
    \o <<HLine(0, 5, LEFT_COLUMN_WIDTH, 45)>>
    \o drawBrainDiagram(brain_X, brain_Y, COMPOSITION)
    \o <<
      \* "TRIAL %d:"
      PutString(0, 7,
          <<84, 82, 73, 65, 76, 32, 37, 100, 58>>),
      \* "  Light: %s -> pick %s"
      PutString(0, 8,
          <<32, 32, 76, 105, 103, 104, 116, 58, 32, 37, 115, 32, 45, 62, 32, 112, 105, 99, 107, 32, 37, 115>>),
      \* "  [A] size %d"
      PutString(0, 9,
          <<32, 32, 91, 65, 93, 32, 115, 105, 122, 101, 32, 37, 100>>),
      \* "  [B] size %d"
      PutString(0, 10,
          <<32, 32, 91, 66, 93, 32, 115, 105, 122, 101, 32, 37, 100>>),
      \* "  Pick: %c (%s)"
      PutString(0, 11,
          <<32, 32, 80, 105, 99, 107, 58, 32, 37, 99, 32, 40, 37, 115, 41>>),
      PutString(0, 12,
          IF correct
          THEN \* "  [OK] CORRECT"
               <<32, 32, 91, 79, 75, 93, 32, 67, 79, 82, 82, 69, 67, 84>>
          ELSE \* "  [X] WRONG"
               <<32, 32, 91, 88, 93, 32, 87, 82, 79, 78, 71>>),
      HLine(0, 14, LEFT_COLUMN_WIDTH, 45)
    >>
    \o drawHistory(entries, 15)
    \o (IF complete
        THEN <<
      \* "enen learned: ON=bigger, OFF=smaller."
      PutString(0, 19,
          <<101, 110, 101, 110, 32, 108, 101, 97, 114, 110, 101, 100, 58, 32, 79, 78, 61, 98, 105, 103, 103, 101, 114, 44, 32, 79, 70, 70, 61, 115, 109, 97, 108, 108, 101, 114, 46>>),
      \* "Final score: %d/%d (%d%%)"
      PutString(0, 20,
          <<70, 105, 110, 97, 108, 32, 115, 99, 111, 114, 101, 58, 32, 37, 100, 47, 37, 100, 32, 40, 37, 100, 37, 37, 41>>)
        >>
        ELSE <<>>)
    \o <<
      HLine(0, footer_DIVIDER_Y, WIDTH, 45),
      PutString(0, footer_CONTROLS_Y,
          IF complete
          THEN \* "[Enter] to see final results..."
               <<91, 69, 110, 116, 101, 114, 93, 32, 116, 111, 32, 115, 101, 101, 32, 102, 105, 110, 97, 108, 32, 114, 101, 115, 117, 108, 116, 115, 46, 46, 46>>
          ELSE \* "[Space] Next Trial    [Q] Quit"
               <<91, 83, 112, 97, 99, 101, 93, 32, 78, 101, 120, 116, 32, 84, 114, 105, 97, 108, 32, 32, 32, 32, 91, 81, 93, 32, 81, 117, 105, 116>>)
    >>

----------------------------------------------------------------------------
(* Unit harness of the trial screens: a history is built with add(), then  *)
(* one of the five screens is rendered from it, complete or not.  The      *)
(* recorder renders a screen after history.add (puzzle 4 also before the   *)
(* first outcome), and a completion screen after at least five outcomes,   *)
(* so with a full history window.                                          *)

\* The drawing calls of the trial screen of `puzzle`.
renderTrial(puzzle, entries, v, g, correct, stepInProgress, complete) ==
    CASE puzzle = GENERALIZATION ->
            renderPuzzle1Trial(entries, v.successes, correct, complete)
      [] puzzle = FEATURE_SELECTION ->
            renderPuzzle2Trial(entries, v.successes, correct, complete)
      [] puzzle = XOR_CONTEXT ->
            renderPuzzle3Trial(entries, v.successes, correct, complete)
      [] puzzle = SEQUENCE ->
            renderPuzzle4Trial(entries, v.successes, correct, stepInProgress, complete)
      [] puzzle = COMPOSITION ->
            renderPuzzle5Trial(entries, g, correct, complete)

\* history.add on the history the screens will be rendered from.
UnitScreenAdd(correct) ==
    /\ runner = "unit"
    /\ draw.op = "none"
    /\ UnitHistoryAdd(correct, "A->B SUCCESS")

UnitRenderTrial(puzzle, correct, stepInProgress, complete) ==
    /\ runner = "unit"
    /\ draw.op = "none"
    /\ complete => (Len(history) = MAX_ENTRIES /\ correct /\ ~stepInProgress)
    /\ stepInProgress => (puzzle = SEQUENCE /\ correct)
    /\ puzzle # SEQUENCE => history # <<>>
    /\ history # <<>> /\ ~stepInProgress => history[Len(history)].correct = correct
    /\ buffer' = drawAll(TextBuffer_clear(buffer),
                         renderTrial(puzzle, history, validator, gauntlet,
                                     correct, stepInProgress, complete), 1)
    /\ draw' = [NoDraw EXCEPT !.op = "renderTrial", !.puzzle = puzzle,
                              !.complete = complete]
    /\ frame' = NoFrame
    /\ UNCHANGED bufferFrame

ScreensNext ==
    \/ \E correct \in BOOLEAN : UnitScreenAdd(correct)
    \/ \E puzzle \in 0..(NUM_PUZZLES - 1), correct \in BOOLEAN,
          stepInProgress \in BOOLEAN, complete \in BOOLEAN :
          UnitRenderTrial(puzzle, correct, stepInProgress, complete)

SpecScreens == UnitInit /\ [][ScreensNext]_vars


\* The row of the HISTORY: label on the screen of each puzzle.
C40_StartY(puzzle) ==
    CASE puzzle = XOR_CONTEXT -> 12
      [] puzzle = COMPOSITION -> 15
      [] OTHER -> history_LABEL_Y

\* The rows in which drawHistory draws the entries of the rendered history.
C40_HistoryRows ==
    {C40_StartY(draw.puzzle) + i :
        i \in 1..drawHistoryCount(history, C40_StartY(draw.puzzle))}

\* The rows of the completion message and of the final score.
C40_CompletionRows ==
    CASE draw.puzzle = XOR_CONTEXT -> {17}
      [] draw.puzzle = COMPOSITION -> {19, 20}
      [] OTHER -> {completion_MESSAGE_Y}

\* Row y of the frame starts with the text str.
C40_Shows(y, str) ==
    SubSeq(TextBuffer_line(buffer, y), 1, Len(str)) = str

\* The i-th most recent entry is on its row as drawHistory drew it.
C40_EntryShown(i) ==
    C40_Shows(C40_StartY(draw.puzzle) + i, historyLine(history[Len(history) - (i - 1)]))

\* "enen learned: "
C40_Learned == <<101, 110, 101, 110, 32, 108, 101, 97, 114, 110, 101, 100, 58, 32>>

\* A completion frame of the harness.
C40_CompletionFrame ==
    runner = "unit" /\ draw.op = "renderTrial" /\ draw.complete

\* C40 as stated: on every trial screen of the recorder the rows in which
\* drawHistory draws entries are disjoint from the rows of the completion
\* message and of the final score, so a completion frame shows every
\* history entry unmodified.
C40_Original ==
    C40_CompletionFrame =>
        /\ C40_HistoryRows \cap C40_CompletionRows = {}
        /\ \A i \in 1..Len(history) : C40_EntryShown(i)

\* C40, as far as it holds: a frame that is not a completion frame shows
\* every entry; a completion frame of puzzles 1-4 has the message on a row
\* below the entries and shows all four; the completion frame of puzzle 5
\* has its message on row 19, the row of the oldest of the four entries,
\* which it overwrites, and shows the three more recent ones.
C40_HistoryRowsAndCompletion ==
    (runner = "unit" /\ draw.op = "renderTrial") =>
        /\ Cardinality(C40_HistoryRows) = Len(history)
        /\ ~draw.complete => \A i \in 1..Len(history) : C40_EntryShown(i)
        /\ (draw.complete /\ draw.puzzle # COMPOSITION) =>
              /\ C40_HistoryRows \cap C40_CompletionRows = {}
              /\ \A i \in 1..Len(history) : C40_EntryShown(i)
              /\ \A y \in C40_CompletionRows : C40_Shows(y, C40_Learned)
        /\ (draw.complete /\ draw.puzzle = COMPOSITION) =>
              /\ C40_HistoryRows \cap C40_CompletionRows = {19}
              /\ \A i \in 1..(MAX_ENTRIES - 1) : C40_EntryShown(i)
              /\ ~C40_EntryShown(MAX_ENTRIES)
              /\ C40_Shows(19, C40_Learned)
              /\ C40_Shows(20, <<70, 105, 110, 97, 108, 32, 115, 99, 111, 114, 101, 58, 32>>)

\* The completion frame of puzzle 5: the message is on the row of the
\* oldest history entry.
C40_Witness ==
    /\ C40_CompletionFrame
    /\ draw.puzzle = COMPOSITION
    /\ Len(history) = MAX_ENTRIES
    /\ C40_Shows(19, C40_Learned)
    /\ ~C40_EntryShown(MAX_ENTRIES)
    /\ C40_EntryShown(1)

\* The completion frame of puzzle 1, with all four entries above the message.
C40_WitnessDisjoint ==
    /\ C40_CompletionFrame
    /\ draw.puzzle = GENERALIZATION
    /\ \A i \in 1..MAX_ENTRIES : C40_EntryShown(i)
    /\ C40_Shows(completion_MESSAGE_Y, C40_Learned)

====
